---- MODULE Spec2Model ----
(***************************************************************************)
(* Model of PP-TIO: the Bloom filter (src/src/data/bloom_filter.py), the   *)
(* homomorphic-encryption engine wrapper (src/src/crypto/he_engine.py),    *)
(* the overlap calculator (src/src/computation/overlap_calculator.py) and  *)
(* the two-party protocol (src/src/computation/protocol.py).               *)
(*                                                                         *)
(* Python values are modelled as follows.  None is the record None.  A     *)
(* list indexed from 0 (a bit array, a plaintext vector) is a function on  *)
(* 0..n-1; an IoC list is a sequence of IoC strings (str(ioc) is the       *)
(* normalized value, ioc_models.py:37-39).  A float that the code obtains  *)
(* by dividing two integers is the reduced fraction [num, den].  A raised  *)
(* exception is a record [exc |-> ...].                                    *)
(***************************************************************************)
EXTENDS Integers, Sequences, FiniteSets, TLC

VARIABLES
    bloom_size,   \* TwoPartyProtocol.bloom_size
    hash_count,   \* TwoPartyProtocol.hash_count
    he_engine,    \* TwoPartyProtocol.he_engine (the HEEngine object's fields)
    party1,       \* TwoPartyProtocol.party1 (None or the Party object's fields)
    party2,       \* TwoPartyProtocol.party2
    keygens,      \* number of key pairs generated so far: names each new key pair
    data1,        \* the caller's first IoC list
    data2,        \* the caller's second IoC list
    ret,          \* the last call: its name, arguments and what it returned or raised
    computed,     \* history: execute_protocol has returned a result since the last setup
    bf,           \* a stand-alone BloomFilter object
    bf_added,     \* history: the items inserted into bf, in order
    bf_ret,       \* the last call on bf and what it returned
    bf_base,      \* history: the bit array bf was last given (at construction
                  \* or by set_bit_array), and how many items had been inserted
    assigned,     \* history: how often party1.encrypted_bloom and
                  \* party2.encrypted_bloom were assigned since the parties were created
                  \* (kept where calls are counted)
    simulations,  \* web/app.py: the registry, simulation id -> entry
    simulation_queues, \* web/app.py: simulation id -> the status queue's contents
    runners,      \* the background threads: simulation id -> position and locals
    streams       \* the status-stream handlers: client -> position and events sent

vars == <<bloom_size, hash_count, he_engine, party1, party2, keygens,
          data1, data2, ret, computed, bf, bf_added, bf_ret, bf_base,
          assigned, simulations, simulation_queues, runners, streams>>

protoVars == <<bloom_size, hash_count, he_engine, party1, party2, keygens,
               data1, data2, ret, computed, assigned>>

bloomVars == <<bf, bf_added, bf_ret, bf_base>>

webVars == <<simulations, simulation_queues, runners, streams>>

----------------------------------------------------------------------------
(* Bounds of the model. *)

\* longest IoC list a caller passes
MaxItems == 2

\* most setup_parties calls on one protocol instance
MaxSetups == 2

\* most insertions into the stand-alone filter
MaxAdds == 3

\* most key pairs generated by the engines of the stand-alone engine's caller
MaxKeys == 2

\* largest bit count passed to the estimator's functions
MaxBits == 4

\* largest size and hash_count, in absolute value, passed to a constructor
MaxParam == 5

\* the assignments of a party's encrypted_bloom are counted up to this number
MaxAssigned == 2

\* largest dataset size passed to create_test_datasets
MaxSize == 2

----------------------------------------------------------------------------
(* Inputs. *)

None == [type |-> "NoneType"]

\* Normalized indicator strings (an IP address, a domain, a URL).
IoCs == {"10.0.0.1", "evil.com", "http://bad.io/x"}

\* The indicators in the IoC lists of the protocol's caller.
CallerIoCs == {"10.0.0.1", "http://bad.io/x"}

\* The party names run_simulation passes to setup_parties.
PartyNames == {<<"ISP-A", "ISP-B">>}

BloomSizes == {3, 4}

HashCounts == {1, 2}

RECURSIVE SeqsUpTo(_, _)
SeqsUpTo(S, n) ==
    IF n = 0 THEN {<<>>}
    ELSE LET shorter == SeqsUpTo(S, n - 1)
         IN  shorter \cup {Append(s, x) : s \in shorter, x \in S}

IoCLists == SeqsUpTo(IoCs, MaxItems)

CallerLists == SeqsUpTo(CallerIoCs, MaxItems)

Range(s) == {s[i] : i \in DOMAIN s}

----------------------------------------------------------------------------
(* Arithmetic helpers. *)

RECURSIVE GCD(_, _)
GCD(a, b) == IF b = 0 THEN a ELSE GCD(b, a % b)

Abs(x) == IF x < 0 THEN -x ELSE x

\* The float n / d (d # 0) as a reduced fraction with a positive denominator.
Frac(n, d) ==
    LET g == GCD(Abs(n), Abs(d))
        sign == IF d < 0 THEN -1 ELSE 1
    IN  [num |-> sign * (n \div g), den |-> sign * (d \div g)]

Zero == Frac(0, 1)

\* sum(v) of a Python list v of length n
RECURSIVE SumTo(_, _)
SumTo(v, n) == IF n = 0 THEN 0 ELSE v[n - 1] + SumTo(v, n - 1)

Sum(v) == SumTo(v, Cardinality(DOMAIN v))

Min(a, b) == IF a <= b THEN a ELSE b

----------------------------------------------------------------------------
(* What a call does: it returns a value or raises an exception. *)

Return(v) == [ok |-> TRUE, val |-> v]

Raise(e) == [ok |-> FALSE, exc |-> e]

ValueError == [exc |-> "ValueError"]

----------------------------------------------------------------------------
(* BloomFilter (src/src/data/bloom_filter.py). *)

\* int(sha256(f"{item}{seed}").hexdigest(), 16) % 720720, for the indicator
\* strings of IoCs and the seeds 0..3: the residues of the SHA-256 values
\* themselves.  Every filter size from 1 to 16 divides 720720, so that
\* Sha256Residue(item, seed) % size is the digest modulo size.
Sha256Residue(item, seed) ==
    CASE item = "10.0.0.1" ->
           (0 :> 415783 @@ 1 :> 20732 @@ 2 :> 65536 @@ 3 :> 505308)[seed]
      [] item = "evil.com" ->
           (0 :> 269509 @@ 1 :> 294873 @@ 2 :> 368119 @@ 3 :> 428684)[seed]
      [] item = "http://bad.io/x" ->
           (0 :> 27555 @@ 1 :> 248284 @@ 2 :> 690739 @@ 3 :> 177088)[seed]

\* BloomFilter._hash
Hash(item, seed, size) == Sha256Residue(item, seed) % size

\* BloomFilter.__init__
BloomFilter(size, hashes) ==
    [size |-> size, hash_count |-> hashes,
     bit_array |-> [j \in 0 .. size - 1 |-> 0], item_count |-> 0]

\* BloomFilter(size, hash_count) for any two integers: np.zeros raises
\* ValueError on a negative size and nothing else is looked at.
NewBloomFilter(size, hashes) ==
    IF size < 0 THEN Raise(ValueError) ELSE Return(BloomFilter(size, hashes))

\* The loop of BloomFilter.add from round i on: bit_array[_hash(item, i)] = 1.
RECURSIVE AddRounds(_, _, _, _, _)
AddRounds(bits, item, i, hashes, size) ==
    IF i >= hashes THEN bits
    ELSE AddRounds([bits EXCEPT ![Hash(item, i, size)] = 1],
                   item, i + 1, hashes, size)

\* An add whose loop is range(1, hash_count): round 0 is skipped.
BloomAddFromRoundOne(f, item) ==
    [f EXCEPT !.bit_array = AddRounds(f.bit_array, item, 1, f.hash_count, f.size),
              !.item_count = f.item_count + 1]

\* An add that starts from a cleared bit array.
BloomAddClearing(f, item) ==
    [f EXCEPT !.bit_array = AddRounds([j \in 0 .. f.size - 1 |-> 0], item, 0,
                                      f.hash_count, f.size),
              !.item_count = f.item_count + 1]

\* An add that counts an item only when it sets a new bit.
BloomAddCountingNew(f, item) ==
    LET bits == AddRounds(f.bit_array, item, 0, f.hash_count, f.size)
    IN  [f EXCEPT !.bit_array = bits,
                  !.item_count = IF bits = f.bit_array THEN f.item_count
                                 ELSE f.item_count + 1]

\* BloomFilter.add
BloomAdd(f, item) ==
    [f EXCEPT !.bit_array = AddRounds(f.bit_array, item, 0, f.hash_count, f.size),
              !.item_count = f.item_count + 1]

\* BloomFilter.add_multiple: add every item of the list, in order.
RECURSIVE BloomAddMultiple(_, _)
BloomAddMultiple(f, items) ==
    IF items = <<>> THEN f
    ELSE BloomAddMultiple(BloomAdd(f, Head(items)), Tail(items))

\* The loop of BloomFilter.contains from round i on.
RECURSIVE ContainsRounds(_, _, _)
ContainsRounds(f, item, i) ==
    IF i >= f.hash_count THEN TRUE
    ELSE IF f.bit_array[Hash(item, i, f.size)] = 0 THEN FALSE
    ELSE ContainsRounds(f, item, i + 1)

\* BloomFilter.contains
BloomContains(f, item) == ContainsRounds(f, item, 0)

\* BloomFilter.get_bit_array
GetBitArray(f) == f.bit_array

\* A count_set_bits that counts the entries of the bit array.
CountSetBitsAsLength(f) == Cardinality(DOMAIN f.bit_array)

\* BloomFilter.count_set_bits
CountSetBits(f) == Sum(f.bit_array)

\* BloomFilter.intersect, for two filters of the same size and hash count
\* (np.logical_and: 1 where both entries are non-zero).
BloomIntersect(f, g) ==
    [size |-> f.size, hash_count |-> f.hash_count,
     bit_array |-> [j \in 0 .. f.size - 1 |->
                      IF f.bit_array[j] # 0 /\ g.bit_array[j] # 0 THEN 1 ELSE 0],
     item_count |-> 0]

\* BloomFilter.union, for two filters of the same size and hash count
\* (np.logical_or).
BloomUnion(f, g) ==
    [size |-> f.size, hash_count |-> f.hash_count,
     bit_array |-> [j \in 0 .. f.size - 1 |->
                      IF f.bit_array[j] # 0 \/ g.bit_array[j] # 0 THEN 1 ELSE 0],
     item_count |-> 0]

\* The check at the head of intersect and of union.
SameParameters(f, g) == f.size = g.size /\ f.hash_count = g.hash_count

\* A set_bit_array that sets the given bits and keeps the bits already set.
SetBitArrayMerging(f, bit_array) ==
    IF Cardinality(DOMAIN bit_array) # f.size
    THEN [filter |-> f, res |-> Raise(ValueError)]
    ELSE [filter |-> [f EXCEPT !.bit_array =
                        [j \in 0 .. f.size - 1 |->
                            IF f.bit_array[j] # 0 \/ bit_array[j] # 0 THEN 1 ELSE 0]],
          res |-> Return(None)]

\* BloomFilter.set_bit_array: the filter afterwards and what the call returns
\* or raises.  A list of n entries is a function on 0 .. n-1.
SetBitArray(f, bit_array) ==
    IF Cardinality(DOMAIN bit_array) # f.size
    THEN [filter |-> f, res |-> Raise(ValueError)]
    ELSE [filter |-> [f EXCEPT !.bit_array = bit_array], res |-> Return(None)]

\* BloomFilter.from_bit_array
FromBitArray(bit_array, hashes) ==
    SetBitArray(BloomFilter(Cardinality(DOMAIN bit_array), hashes),
                bit_array).filter

----------------------------------------------------------------------------
(* HEEngine (src/src/crypto/he_engine.py), a wrapper around the TenSEAL    *)
(* BFV scheme.  A context is [key, secret]: which key pair it belongs to   *)
(* and whether it holds the secret key.  A serialized ciphertext is        *)
(* [ctx, data]: the key pair it was made under and the plaintext vector it *)
(* encrypts, which only decrypt reads.  An operation returns               *)
(* [ok |-> TRUE, val |-> v] or, when it raises, [ok |-> FALSE, exc |-> e]. *)
(* All contexts are built with the same BFV parameters (every HEEngine is  *)
(* constructed with the defaults), so a ciphertext of one key pair         *)
(* deserializes under the context of another.                              *)

plain_modulus == 1032193

\* An error raised inside the encryption library.
LibraryError == [exc |-> "RuntimeError"]

\* HEEngine.__init__
NewHEEngine == [context |-> None, public_key |-> None, private_key |-> None]

\* HEEngine.generate_keys, k naming the key pair the library draws
GenerateKeys(engine, k) ==
    [context |-> [key |-> k, secret |-> TRUE],
     public_key |-> [key |-> k, secret |-> FALSE],
     private_key |-> [key |-> k, secret |-> TRUE]]

\* HEEngine.encrypt; fails says that the library call raises
HEEncrypt(engine, data, fails) ==
    IF engine.context = None THEN Raise(ValueError)
    ELSE IF fails THEN Raise(LibraryError)
    ELSE Return([ctx |-> engine.context.key,
                 data |-> [j \in DOMAIN data |-> data[j] % plain_modulus]])

\* HEEngine.load_public_key: ts.context_from(bytes) rebuilds the serialized
\* context, with its secret key if the bytes hold one.
LoadPublicKey(engine, key_bytes) ==
    [engine EXCEPT !.context = key_bytes, !.public_key = key_bytes]

\* HEEngine.load_private_key
LoadPrivateKey(engine, key_bytes) ==
    [engine EXCEPT !.context = key_bytes, !.private_key = key_bytes]

\* The ctx of a ciphertext that no key pair decrypts to its data: a product
\* of ciphertexts of two key pairs.
NoKey == -1

\* HEEngine.decrypt.  The library raises when the context holds no secret
\* key; foreign is what it does with a ciphertext of another key pair than
\* the context's (it raises, or it returns a vector unrelated to the data).
HEDecrypt(engine, ciphertext, fails, foreign) ==
    IF engine.context = None \/ engine.private_key = None THEN Raise(ValueError)
    ELSE IF fails \/ ~engine.context.secret THEN Raise(LibraryError)
    ELSE IF ciphertext.ctx # engine.context.key THEN foreign
    ELSE Return(ciphertext.data)

\* A multiply_encrypted that adds the two vectors, as add_encrypted does.
HEMultiplyEncryptedAdding(engine, c1, c2, fails) ==
    IF engine.context = None THEN Raise(ValueError)
    ELSE IF fails \/ DOMAIN c1.data # DOMAIN c2.data THEN Raise(LibraryError)
    ELSE Return([ctx |-> IF c1.ctx = c2.ctx THEN c1.ctx ELSE NoKey,
                 data |-> [j \in DOMAIN c1.data |->
                             (c1.data[j] + c2.data[j]) % plain_modulus]])

\* HEEngine.multiply_encrypted.  The library raises on two vectors of
\* different lengths (neither of length 1); the product of ciphertexts of
\* one key pair is a ciphertext of that key pair.
HEMultiplyEncrypted(engine, c1, c2, fails) ==
    IF engine.context = None THEN Raise(ValueError)
    ELSE IF fails \/ DOMAIN c1.data # DOMAIN c2.data THEN Raise(LibraryError)
    ELSE Return([ctx |-> IF c1.ctx = c2.ctx THEN c1.ctx ELSE NoKey,
                 data |-> [j \in DOMAIN c1.data |->
                             (c1.data[j] * c2.data[j]) % plain_modulus]])

----------------------------------------------------------------------------
(* OverlapCalculator (src/src/computation/overlap_calculator.py). *)

\* OverlapCalculator.compute_encrypted_overlap
ComputeEncryptedOverlap(engine, e1, e2, fails) ==
    HEMultiplyEncrypted(engine, e1, e2, fails)

\* OverlapCalculator.count_overlap_bits
CountOverlapBits(engine, intersection_encrypted, fails, foreign) ==
    LET d == HEDecrypt(engine, intersection_encrypted, fails, foreign)
    IN  IF d.ok THEN Return(Sum(d.val)) ELSE d

\* A calculate_jaccard_similarity whose union is bloom1_bits + bloom2_bits.
CalculateJaccardSimilarityNoOverlapTerm(overlap_bits, bloom1_bits, bloom2_bits) ==
    LET union_bits == bloom1_bits + bloom2_bits
    IN  IF union_bits = 0 THEN Zero ELSE Frac(overlap_bits, union_bits)

\* OverlapCalculator.calculate_jaccard_similarity
CalculateJaccardSimilarity(overlap_bits, bloom1_bits, bloom2_bits) ==
    LET union_bits == bloom1_bits + bloom2_bits - overlap_bits
    IN  IF union_bits = 0 THEN Zero ELSE Frac(overlap_bits, union_bits)

\* Fixed-point scale of the logarithms below: millionths.
LnScale == 10 ^ 6

\* floor(-ln(1 - k/m) * LnScale) for 0 < k < m <= 8
LnTable ==
    2 :> (1 :> 693147) @@
    3 :> (1 :> 405465 @@ 2 :> 1098612) @@
    4 :> (1 :> 287682 @@ 2 :> 693147 @@ 3 :> 1386294) @@
    5 :> (1 :> 223143 @@ 2 :> 510825 @@ 3 :> 916290 @@ 4 :> 1609437) @@
    6 :> (1 :> 182321 @@ 2 :> 405465 @@ 3 :> 693147 @@ 4 :> 1098612 @@
          5 :> 1791759) @@
    7 :> (1 :> 154150 @@ 2 :> 336472 @@ 3 :> 559615 @@ 4 :> 847297 @@
          5 :> 1252762 @@ 6 :> 1945910) @@
    8 :> (1 :> 133531 @@ 2 :> 287682 @@ 3 :> 470003 @@ 4 :> 693147 @@
          5 :> 980829 @@ 6 :> 1386294 @@ 7 :> 2079441)

\* floor(-ln(1 + u/m) * LnScale) for m = 3, 4 and 0 < u <= 6: the logarithm
\* at a negative number of set bits -u
LnTableBelow ==
    3 :> (1 :> -287683 @@ 2 :> -510826 @@ 3 :> -693148 @@ 4 :> -847298 @@
          5 :> -980830 @@ 6 :> -1098613) @@
    4 :> (1 :> -223144 @@ 2 :> -405466 @@ 3 :> -559616 @@ 4 :> -693148 @@
          5 :> -810931 @@ 6 :> -916291)

\* floor(-ln(1 - 0.999) * LnScale): the ratio the code substitutes at >= 1.0
LnClamped == 6907755

\* An estimate_items that passes min(ratio, 0.999) to the logarithm.
LogRatioCapped(set_bits, size) ==
    IF set_bits * 1000 >= 999 * size THEN [num |-> 999, den |-> 1000]
    ELSE Frac(set_bits, size)

\* The ratio that estimate_items passes to np.log(1 - ratio), for set_bits
\* other than 0 and a positive size.
LogRatio(set_bits, size) ==
    IF set_bits >= size THEN [num |-> 999, den |-> 1000]
    ELSE Frac(set_bits, size)

\* -ln(1 - ratio) * LnScale as estimate_items takes it: 0 for no set bit
\* (it returns 0 before the logarithm), the clamped ratio from 1.0 on.
NegLn1m(set_bits, size) ==
    IF set_bits = 0 THEN 0
    ELSE IF set_bits >= size THEN LnClamped
    ELSE IF set_bits < 0 THEN LnTableBelow[size][-set_bits]
    ELSE LnTable[size][set_bits]

\* An estimate_set_overlap that returns max(0, round(estimated_overlap)).
EstimateSetOverlapRounding(overlap_bits, bloom1_bits, bloom2_bits, size, hashes) ==
    LET union_bits == bloom1_bits + bloom2_bits - overlap_bits
        scaled == size * (NegLn1m(bloom1_bits, size) + NegLn1m(bloom2_bits, size)
                          - NegLn1m(union_bits, size))
    IN  IF scaled <= 0 THEN 0
        ELSE (2 * scaled + hashes * LnScale) \div (2 * hashes * LnScale)

\* An estimate_set_overlap that returns int(estimated_overlap), without the
\* max(0, ...): int truncates towards zero.
EstimateSetOverlapUnclamped(overlap_bits, bloom1_bits, bloom2_bits, size, hashes) ==
    LET union_bits == bloom1_bits + bloom2_bits - overlap_bits
        scaled == size * (NegLn1m(bloom1_bits, size) + NegLn1m(bloom2_bits, size)
                          - NegLn1m(union_bits, size))
    IN  IF scaled <= 0 THEN -((-scaled) \div (hashes * LnScale))
        ELSE scaled \div (hashes * LnScale)

\* OverlapCalculator.estimate_set_overlap.  estimate_items(x) is
\* (size / hashes) * NegLn1m(x, size) / LnScale; int(max(0, e)) truncates.
EstimateSetOverlap(overlap_bits, bloom1_bits, bloom2_bits, size, hashes) ==
    LET union_bits == bloom1_bits + bloom2_bits - overlap_bits
        scaled == size * (NegLn1m(bloom1_bits, size) + NegLn1m(bloom2_bits, size)
                          - NegLn1m(union_bits, size))
    IN  IF scaled <= 0 THEN 0 ELSE scaled \div (hashes * LnScale)

\* OverlapCalculator.compute_overlap_statistics; fault names the library call
\* that raises, if any, and foreign is what the library's decrypt does with a
\* ciphertext of another key pair
ComputeOverlapStatistics(engine, bloom1, bloom2, e1, e2, fault, foreign) ==
    LET inter == ComputeEncryptedOverlap(engine, e1, e2, fault = "multiply")
        count == CountOverlapBits(engine, inter.val, fault = "decrypt", foreign)
        overlap_bits == count.val
        bloom1_bits == CountSetBits(bloom1)
        bloom2_bits == CountSetBits(bloom2)
    IN  IF ~inter.ok THEN inter
        ELSE IF ~count.ok THEN count
        ELSE Return(
          [overlap_bits |-> overlap_bits,
           bloom1_bits |-> bloom1_bits,
           bloom2_bits |-> bloom2_bits,
           jaccard_similarity |->
               CalculateJaccardSimilarity(overlap_bits, bloom1_bits, bloom2_bits),
           estimated_item_overlap |->
               EstimateSetOverlap(overlap_bits, bloom1_bits, bloom2_bits,
                                  bloom1.size, bloom1.hash_count),
           bloom1_items |-> bloom1.item_count,
           bloom2_items |-> bloom2.item_count,
           bloom_size |-> bloom1.size,
           hash_count |-> bloom1.hash_count])

----------------------------------------------------------------------------
(* Party (src/src/computation/protocol.py). *)

\* The one HEEngine object of the protocol instance, which both parties hold
\* a reference to.
EngineRef == "TwoPartyProtocol.he_engine"

\* Party.__init__
NewParty(name, engine_ref) ==
    [name |-> name, he_engine |-> engine_ref, ioc_list |-> <<>>,
     bloom_filter |-> None, encrypted_bloom |-> None]

\* Party.set_ioc_list
SetIocList(p, iocs) == [p EXCEPT !.ioc_list = iocs]

\* Party.create_bloom_filter: a new filter, then add(str(ioc)) for every IoC.
CreateBloomFilter(p, size, hashes) ==
    [p EXCEPT !.bloom_filter =
        BloomAddMultiple(BloomFilter(size, hashes), p.ioc_list)]

\* An encrypt_bloom_filter without the check of bloom_filter: a party without
\* a filter encrypts an empty vector.
EncryptBloomFilterUnguarded(p, engine, fails) ==
    LET r == HEEncrypt(engine,
                       IF p.bloom_filter = None THEN [j \in {} |-> 0]
                       ELSE GetBitArray(p.bloom_filter), fails)
    IN  IF r.ok
        THEN [party |-> [p EXCEPT !.encrypted_bloom = r.val], res |-> r]
        ELSE [party |-> p, res |-> r]

\* Party.encrypt_bloom_filter on the engine the party refers to: the party
\* afterwards and what the call returns or raises.
EncryptBloomFilter(p, engine, fails) ==
    IF p.bloom_filter = None
    THEN [party |-> p, res |-> Raise(ValueError)]
    ELSE LET r == HEEncrypt(engine, GetBitArray(p.bloom_filter), fails)
         IN  IF r.ok
             THEN [party |-> [p EXCEPT !.encrypted_bloom = r.val], res |-> r]
             ELSE [party |-> p, res |-> r]

\* A get_bloom_stats that reports the number of insertions as set_bits.
GetBloomStatsCountingItems(p) ==
    IF p.bloom_filter = None THEN [status |-> "not_created"]
    ELSE [party_name |-> p.name,
          ioc_count |-> Len(p.ioc_list),
          bloom_size |-> p.bloom_filter.size,
          hash_count |-> p.bloom_filter.hash_count,
          set_bits |-> p.bloom_filter.item_count]

\* Party.get_bloom_stats.  false_positive_rate, a float that no caller in the
\* protocol reads, is left out.
GetBloomStats(p) ==
    IF p.bloom_filter = None THEN [status |-> "not_created"]
    ELSE [party_name |-> p.name,
          ioc_count |-> Len(p.ioc_list),
          bloom_size |-> p.bloom_filter.size,
          hash_count |-> p.bloom_filter.hash_count,
          set_bits |-> CountSetBits(p.bloom_filter)]

----------------------------------------------------------------------------
(* TwoPartyProtocol (src/src/computation/protocol.py). *)

\* The library calls of execute_protocol that may raise.
Faults == {"none", "encrypt1", "encrypt2", "multiply", "decrypt"}

\* A setup_parties that generates keys only when the engine has no context.
SetupPartiesReusingKeys(engine, names, iocs1, iocs2, size, hashes, k) ==
    [he_engine |-> IF engine.context = None THEN GenerateKeys(engine, k)
                   ELSE engine,
     party1 |-> CreateBloomFilter(
                    SetIocList(NewParty(names[1], EngineRef), iocs1), size, hashes),
     party2 |-> CreateBloomFilter(
                    SetIocList(NewParty(names[2], EngineRef), iocs2), size, hashes)]

\* The failures injected into run_simulation: whichever library call fails,
\* the error leaves run_simulation the same way and its protocol instance is
\* discarded, so one failing call stands for all.
SimulationFaults == {"none", "decrypt"}

\* A setup_parties that gives each party the other party's list.
SetupPartiesSwappingLists(engine, names, iocs1, iocs2, size, hashes, k) ==
    [he_engine |-> GenerateKeys(engine, k),
     party1 |-> CreateBloomFilter(
                    SetIocList(NewParty(names[1], EngineRef), iocs2), size, hashes),
     party2 |-> CreateBloomFilter(
                    SetIocList(NewParty(names[2], EngineRef), iocs1), size, hashes)]

\* TwoPartyProtocol.setup_parties: the engine and the parties afterwards.
SetupParties(engine, names, iocs1, iocs2, size, hashes, k) ==
    [he_engine |-> GenerateKeys(engine, k),
     party1 |-> CreateBloomFilter(
                    SetIocList(NewParty(names[1], EngineRef), iocs1), size, hashes),
     party2 |-> CreateBloomFilter(
                    SetIocList(NewParty(names[2], EngineRef), iocs2), size, hashes)]

\* Step 4 of execute_protocol: the result built from the statistics.
ProtocolResult(stats, p1stats, p2stats, size, hashes) ==
    [overlap_statistics |->
        [estimated_item_overlap |-> stats.estimated_item_overlap,
         jaccard_similarity |-> stats.jaccard_similarity,
         overlap_bits |-> stats.overlap_bits],
     party1_info |->
        [name |-> p1stats.party_name,
         ioc_count |-> p1stats.ioc_count,
         bloom_set_bits |-> p1stats.set_bits],
     party2_info |->
        [name |-> p2stats.party_name,
         ioc_count |-> p2stats.ioc_count,
         bloom_set_bits |-> p2stats.set_bits],
     bloom_filter_params |-> [size |-> size, hash_count |-> hashes],
     privacy_preserved |-> TRUE,
     raw_iocs_exposed |-> FALSE]

\* The check at the head of execute_protocol.
NotSetUp(p1, p2) == p1 = None \/ p2 = None

\* A placeholder result, which execute_protocol never builds.
Placeholder == [status |-> "not_created"]

\* Statistics that report no overlap, which compute_overlap_statistics never
\* substitutes for a failed computation.
NoOverlapStatistics ==
    [estimated_item_overlap |-> 0, jaccard_similarity |-> Zero,
     overlap_bits |-> 0]

\* Steps 1 to 4 of execute_protocol with a result of no overlap returned when
\* the overlap computation raises.
ExecuteStepsDegrading(engine, p1, p2, size, hashes, fault) ==
    LET enc1 == EncryptBloomFilter(p1, engine, fault = "encrypt1")
        enc2 == EncryptBloomFilter(p2, engine, fault = "encrypt2")
        stats == ComputeOverlapStatistics(engine, enc1.party.bloom_filter,
                     enc2.party.bloom_filter, enc1.res.val, enc2.res.val, fault,
                     Raise(LibraryError))
    IN  IF ~enc1.res.ok
        THEN [party1 |-> p1, party2 |-> p2, res |-> enc1.res,
              assigned |-> <<FALSE, FALSE>>]
        ELSE IF ~enc2.res.ok
        THEN [party1 |-> enc1.party, party2 |-> p2, res |-> enc2.res,
              assigned |-> <<TRUE, FALSE>>]
        ELSE IF ~stats.ok
        THEN [party1 |-> enc1.party, party2 |-> enc2.party,
              res |-> Return(ProtocolResult(NoOverlapStatistics,
                                 GetBloomStats(enc1.party),
                                 GetBloomStats(enc2.party), size, hashes)),
              assigned |-> <<TRUE, TRUE>>]
        ELSE [party1 |-> enc1.party, party2 |-> enc2.party,
              res |-> Return(ProtocolResult(stats.val,
                                 GetBloomStats(enc1.party),
                                 GetBloomStats(enc2.party), size, hashes)),
              assigned |-> <<TRUE, TRUE>>]

\* Steps 1 to 4 of execute_protocol with a step 1 that encrypts a party's
\* filter only if the party has no encrypted filter yet.
ExecuteStepsReusing(engine, p1, p2, size, hashes, fault) ==
    LET enc1 == IF p1.encrypted_bloom # None
                THEN [party |-> p1, res |-> Return(p1.encrypted_bloom)]
                ELSE EncryptBloomFilter(p1, engine, fault = "encrypt1")
        enc2 == IF p2.encrypted_bloom # None
                THEN [party |-> p2, res |-> Return(p2.encrypted_bloom)]
                ELSE EncryptBloomFilter(p2, engine, fault = "encrypt2")
        stats == ComputeOverlapStatistics(engine, enc1.party.bloom_filter,
                     enc2.party.bloom_filter, enc1.res.val, enc2.res.val, fault,
                     Raise(LibraryError))
        wrote1 == p1.encrypted_bloom = None
        wrote2 == p2.encrypted_bloom = None
    IN  IF ~enc1.res.ok
        THEN [party1 |-> p1, party2 |-> p2, res |-> enc1.res,
              assigned |-> <<FALSE, FALSE>>]
        ELSE IF ~enc2.res.ok
        THEN [party1 |-> enc1.party, party2 |-> p2, res |-> enc2.res,
              assigned |-> <<wrote1, FALSE>>]
        ELSE IF ~stats.ok
        THEN [party1 |-> enc1.party, party2 |-> enc2.party, res |-> stats,
              assigned |-> <<wrote1, wrote2>>]
        ELSE [party1 |-> enc1.party, party2 |-> enc2.party,
              res |-> Return(ProtocolResult(stats.val,
                                 GetBloomStats(enc1.party),
                                 GetBloomStats(enc2.party), size, hashes)),
              assigned |-> <<wrote1, wrote2>>]

\* Steps 1 to 4 of execute_protocol, on parties that are set up: the two
\* parties afterwards, what the call returns or raises, and which of the
\* parties had its encrypted_bloom assigned (line 67, reached from lines 147
\* and 148).  Both filters are
\* encrypted under the engine's own context, so that the decrypt of their
\* product never meets a ciphertext of another key pair.
ExecuteSteps(engine, p1, p2, size, hashes, fault) ==
    LET enc1 == EncryptBloomFilter(p1, engine, fault = "encrypt1")
        enc2 == EncryptBloomFilter(p2, engine, fault = "encrypt2")
        stats == ComputeOverlapStatistics(engine, enc1.party.bloom_filter,
                     enc2.party.bloom_filter, enc1.res.val, enc2.res.val, fault,
                     Raise(LibraryError))
    IN  IF ~enc1.res.ok
        THEN [party1 |-> p1, party2 |-> p2, res |-> enc1.res,
              assigned |-> <<FALSE, FALSE>>]
        ELSE IF ~enc2.res.ok
        THEN [party1 |-> enc1.party, party2 |-> p2, res |-> enc2.res,
              assigned |-> <<TRUE, FALSE>>]
        ELSE IF ~stats.ok
        THEN [party1 |-> enc1.party, party2 |-> enc2.party, res |-> stats,
              assigned |-> <<TRUE, TRUE>>]
        ELSE [party1 |-> enc1.party, party2 |-> enc2.party,
              res |-> Return(ProtocolResult(stats.val,
                                 GetBloomStats(enc1.party),
                                 GetBloomStats(enc2.party), size, hashes)),
              assigned |-> <<TRUE, TRUE>>]

\* An execute_protocol that returns a placeholder when the parties are not
\* set up.
ExecuteProtocolUnchecked(engine, p1, p2, size, hashes, fault) ==
    IF NotSetUp(p1, p2)
    THEN [party1 |-> p1, party2 |-> p2, res |-> Return(Placeholder),
          assigned |-> <<FALSE, FALSE>>]
    ELSE ExecuteSteps(engine, p1, p2, size, hashes, fault)

\* TwoPartyProtocol.execute_protocol: the two parties afterwards and what the
\* call returns or raises.
ExecuteProtocol(engine, p1, p2, size, hashes, fault) ==
    IF NotSetUp(p1, p2)
    THEN [party1 |-> p1, party2 |-> p2, res |-> Raise(ValueError),
          assigned |-> <<FALSE, FALSE>>]
    ELSE ExecuteSteps(engine, p1, p2, size, hashes, fault)

\* A verify_correctness that also returns the common indicators themselves.
VerifyCorrectnessWithItems(iocs1, iocs2) ==
    LET set1 == Range(iocs1)
        set2 == Range(iocs2)
        intersection == set1 \cap set2
        union == set1 \cup set2
    IN  [actual_overlap |-> Cardinality(intersection),
         actual_jaccard_similarity |->
             IF Cardinality(union) > 0
             THEN Frac(Cardinality(intersection), Cardinality(union))
             ELSE Zero,
         set1_size |-> Cardinality(set1),
         set2_size |-> Cardinality(set2),
         union_size |-> Cardinality(union),
         intersection |-> intersection]

\* A verify_correctness that counts the entries of the first list found in
\* the second, and the entries of both lists, duplicates included.
VerifyCorrectnessCountingEntries(iocs1, iocs2) ==
    LET common == Cardinality({i \in DOMAIN iocs1 : iocs1[i] \in Range(iocs2)})
        total == Len(iocs1) + Len(iocs2) - common
    IN  [actual_overlap |-> common,
         actual_jaccard_similarity |->
             IF total > 0 THEN Frac(common, total) ELSE Zero,
         set1_size |-> Len(iocs1),
         set2_size |-> Len(iocs2),
         union_size |-> total]

\* TwoPartyProtocol.verify_correctness, on the lists of the str(ioc)
VerifyCorrectness(iocs1, iocs2) ==
    LET set1 == Range(iocs1)
        set2 == Range(iocs2)
        intersection == set1 \cap set2
        union == set1 \cup set2
    IN  [actual_overlap |-> Cardinality(intersection),
         actual_jaccard_similarity |->
             IF Cardinality(union) > 0
             THEN Frac(Cardinality(intersection), Cardinality(union))
             ELSE Zero,
         set1_size |-> Cardinality(set1),
         set2_size |-> Cardinality(set2),
         union_size |-> Cardinality(union)]

\* The accuracy record run_simulation adds after verification.
Accuracy(results, verification) ==
    LET estimated == results.overlap_statistics.estimated_item_overlap
        actual == verification.actual_overlap
        error == Abs(estimated - actual)
    IN  [estimated_overlap |-> estimated,
         actual_overlap |-> actual,
         error |-> error,
         error_percentage |->
             IF actual > 0 THEN Frac(error * 100, actual) ELSE Zero]

\* A run_simulation that marks a verified result as exposing raw IoCs.
WithVerificationFlagged(results, verification) ==
    [verification |-> verification,
     accuracy |-> Accuracy(results, verification),
     raw_iocs_exposed |-> TRUE] @@ results

\* results['verification'] = ..., results['accuracy'] = ... of run_simulation
WithVerification(results, verification) ==
    [verification |-> verification,
     accuracy |-> Accuracy(results, verification)] @@ results

\* run_simulation: a protocol instance of its own (with an engine and a key
\* pair of its own, named k) set up, executed and, if asked, verified.
RunSimulation(iocs1, iocs2, size, hashes, verify, fault, k) ==
    LET proto == SetupParties(NewHEEngine, <<"ISP-A", "ISP-B">>,
                              iocs1, iocs2, size, hashes, k)
        run == ExecuteProtocol(proto.he_engine, proto.party1, proto.party2,
                               size, hashes, fault)
    IN  IF ~run.res.ok THEN run.res
        ELSE IF verify
        THEN Return(WithVerification(run.res.val,
                                     VerifyCorrectness(iocs1, iocs2)))
        ELSE run.res

----------------------------------------------------------------------------
(* The protocol as a state machine: one instance of TwoPartyProtocol, built *)
(* with some bloom_size and hash_count, and a caller that holds two IoC     *)
(* lists and calls the instance's methods and run_simulation in any order.  *)

\* The web front end with no simulation started: the module-level
\* dictionaries empty, no background thread and no status stream.
WebIdle ==
    /\ simulations = <<>>
    /\ simulation_queues = <<>>
    /\ runners = <<>>
    /\ streams = <<>>

\* The count n of assignments after one more, if wrote.
CountAssigned(n, wrote) == IF wrote /\ n < MaxAssigned THEN n + 1 ELSE n

\* A call as ret records it: fault is the library call that raised in it
\* ("none" if none did).
Call(name, args, fault, res) ==
    [call |-> name, args |-> args, fault |-> fault, res |-> res]

Init ==
    /\ bloom_size \in BloomSizes
    /\ hash_count \in HashCounts
    /\ he_engine = NewHEEngine
    /\ party1 = None
    /\ party2 = None
    /\ keygens = 0
    /\ data1 \in CallerLists
    /\ data2 \in CallerLists
    /\ ret = Call("none", <<>>, "none", Return(None))
    /\ computed = FALSE
    /\ bf = None
    /\ bf_added = <<>>
    /\ bf_ret = None
    /\ bf_base = None
    /\ assigned = <<0, 0>>
    /\ WebIdle

\* protocol.setup_parties(names[1], names[2], data1, data2)
SetupPartiesCall(names) ==
    /\ keygens < MaxSetups
    /\ \E after \in {SetupParties(he_engine, names, data1, data2,
                                    bloom_size, hash_count, keygens + 1)} :
           /\ he_engine' = after.he_engine
           /\ party1' = after.party1
           /\ party2' = after.party2
    /\ keygens' = keygens + 1
    /\ computed' = FALSE
    /\ ret' = Call("setup_parties", <<names[1], names[2], data1, data2>>,
                   "none", Return(None))
    /\ assigned' = <<0, 0>>
    /\ UNCHANGED <<bloom_size, hash_count, data1, data2, bloomVars, webVars>>

\* protocol.execute_protocol(), the library raising at fault (if not "none");
\* without parties no library call is reached. The history assigned is kept
\* when counting.
ExecuteProtocolCounting(fault, counting) ==
    /\ NotSetUp(party1, party2) => fault = "none"
    /\ \E after \in {ExecuteProtocol(he_engine, party1, party2,
                                       bloom_size, hash_count, fault)} :
           /\ party1' = after.party1
           /\ party2' = after.party2
           /\ ret' = Call("execute_protocol", <<>>, fault, after.res)
           /\ computed' = (computed \/ after.res.ok)
           /\ assigned' = IF counting
                          THEN <<CountAssigned(assigned[1], after.assigned[1]),
                                 CountAssigned(assigned[2], after.assigned[2])>>
                          ELSE assigned
    /\ UNCHANGED <<bloom_size, hash_count, he_engine, keygens, data1, data2,
                   bloomVars, webVars>>

\* protocol.execute_protocol() where the history is not kept.
ExecuteProtocolCall(fault) == ExecuteProtocolCounting(fault, FALSE)

\* protocol.execute_protocol() with the assignments counted.
ExecuteProtocolRound(fault) == ExecuteProtocolCounting(fault, TRUE)

\* The protocol state of the orchestrator's state machine.
ProtocolState ==
    IF party1 = None \/ party2 = None THEN "Created"
    ELSE IF computed THEN "Computed"
    ELSE IF party1.encrypted_bloom # None /\ party2.encrypted_bloom # None
         THEN "FiltersEncrypted"
    ELSE "PartiesConfigured"

\* A verify_correctness call that is refused unless the protocol is in state
\* Computed.
VerifyCorrectnessCallGuarded(iocs1, iocs2) ==
    /\ ret' = Call("verify_correctness", <<iocs1, iocs2>>, "none",
                   IF ProtocolState = "Computed"
                   THEN Return(VerifyCorrectness(iocs1, iocs2))
                   ELSE Raise([exc |-> "ProtocolNotReady"]))
    /\ UNCHANGED <<bloom_size, hash_count, he_engine, party1, party2, keygens,
                   data1, data2, computed, assigned, bloomVars, webVars>>

\* protocol.verify_correctness(iocs1, iocs2)
VerifyCorrectnessCall(iocs1, iocs2) ==
    /\ ret' = Call("verify_correctness", <<iocs1, iocs2>>, "none",
                   Return(VerifyCorrectness(iocs1, iocs2)))
    /\ UNCHANGED <<bloom_size, hash_count, he_engine, party1, party2, keygens,
                   data1, data2, computed, assigned, bloomVars, webVars>>

\* run_simulation(data1, data2, bloom_size, hash_count, verify): it works on a
\* protocol instance of its own and leaves this one alone.
RunSimulationCall(verify, fault) ==
    /\ ret' = Call("run_simulation", <<data1, data2, verify>>, fault,
                   RunSimulation(data1, data2, bloom_size, hash_count,
                                 verify, fault, 0))
    /\ UNCHANGED <<bloom_size, hash_count, he_engine, party1, party2, keygens,
                   data1, data2, computed, assigned, bloomVars, webVars>>

Next ==
    \/ \E names \in PartyNames : SetupPartiesCall(names)
    \/ \E fault \in Faults : ExecuteProtocolCall(fault)
    \/ VerifyCorrectnessCall(data1, data2)
    \/ \E verify \in BOOLEAN, fault \in SimulationFaults :
           RunSimulationCall(verify, fault)

Spec == Init /\ [][Next]_vars

----------------------------------------------------------------------------
(* A BloomFilter object on its own, under any sequence of calls of its      *)
(* methods.  The protocol instance is left as constructed.                  *)

InitBloom ==
    /\ bf \in {BloomFilter(size, hashes) : size \in BloomSizes, hashes \in HashCounts}
    /\ bf_added = <<>>
    /\ bf_ret = Call("BloomFilter", <<bf.size, bf.hash_count>>, "none", Return(None))
    /\ bf_base = [bit_array |-> bf.bit_array, at |-> 0]
    /\ assigned = <<0, 0>>
    /\ WebIdle
    /\ bloom_size = bf.size
    /\ hash_count = bf.hash_count
    /\ he_engine = NewHEEngine
    /\ party1 = None
    /\ party2 = None
    /\ keygens = 0
    /\ data1 = <<>>
    /\ data2 = <<>>
    /\ ret = Call("none", <<>>, "none", Return(None))
    /\ computed = FALSE

\* bf.add(item)
BfAdd(item) ==
    /\ Len(bf_added) < MaxAdds
    /\ bf' = BloomAdd(bf, item)
    /\ bf_added' = Append(bf_added, item)
    /\ bf_ret' = Call("add", <<item>>, "none", Return(None))
    /\ UNCHANGED <<bf_base, protoVars, webVars>>

\* bf.add_multiple(items)
BfAddMultiple(items) ==
    /\ Len(bf_added) + Len(items) <= MaxAdds
    /\ bf' = BloomAddMultiple(bf, items)
    /\ bf_added' = bf_added \o items
    /\ bf_ret' = Call("add_multiple", <<items>>, "none", Return(None))
    /\ UNCHANGED <<bf_base, protoVars, webVars>>

\* bf.contains(item)
BfContains(item) ==
    /\ bf_ret' = Call("contains", <<item>>, "none",
                      Return(BloomContains(bf, item)))
    /\ UNCHANGED <<bf, bf_added, bf_base, protoVars, webVars>>

\* bf.count_set_bits()
BfCountSetBits ==
    /\ bf_ret' = Call("count_set_bits", <<>>, "none", Return(CountSetBits(bf)))
    /\ UNCHANGED <<bf, bf_added, bf_base, protoVars, webVars>>

NextBloom ==
    \/ \E item \in IoCs : BfAdd(item)
    \/ \E items \in IoCLists : BfAddMultiple(items)
    \/ \E item \in IoCs : BfContains(item)
    \/ BfCountSetBits

SpecBloom == InitBloom /\ [][NextBloom]_vars

----------------------------------------------------------------------------
(* The same BloomFilter object under all of its public operations.          *)

\* The lists passed to set_bit_array and from_bit_array: no bit, every bit,
\* the first bit only, and a list one entry longer than the filter.
BitLists(size) ==
    {[j \in 0 .. size - 1 |-> 0],
     [j \in 0 .. size - 1 |-> 1],
     [j \in 0 .. size - 1 |-> IF j = 0 THEN 1 ELSE 0],
     [j \in 0 .. size |-> 0]}

\* The filters passed to intersect and union: of bf's parameters or with one
\* more hash round, empty or with one indicator.
OtherFilters(f) ==
    {BloomAddMultiple(BloomFilter(f.size, hashes), items) :
        hashes \in {f.hash_count, f.hash_count + 1},
        items \in SeqsUpTo(CallerIoCs, 1)}

\* bf.get_bit_array()
BfGetBitArray ==
    /\ bf_ret' = Call("get_bit_array", <<>>, "none", Return(GetBitArray(bf)))
    /\ UNCHANGED <<bf, bf_added, bf_base, protoVars, webVars>>

\* bf.set_bit_array(bit_array)
BfSetBitArray(bit_array) ==
    /\ \E after \in {SetBitArray(bf, bit_array)} :
           /\ bf' = after.filter
           /\ bf_ret' = Call("set_bit_array", <<bit_array>>, "none", after.res)
           /\ bf_base' = IF after.res.ok
                         THEN [bit_array |-> bit_array, at |-> Len(bf_added)]
                         ELSE bf_base
    /\ UNCHANGED <<bf_added, protoVars, webVars>>

\* BloomFilter.from_bit_array(bit_array, bf.hash_count)
BfFromBitArray(bit_array) ==
    /\ bf_ret' = Call("from_bit_array", <<bit_array, bf.hash_count>>, "none",
                      Return(FromBitArray(bit_array, bf.hash_count)))
    /\ UNCHANGED <<bf, bf_added, bf_base, protoVars, webVars>>

\* bf.intersect(other)
BfIntersect(other) ==
    /\ bf_ret' = Call("intersect", <<other>>, "none",
                      IF SameParameters(bf, other)
                      THEN Return(BloomIntersect(bf, other))
                      ELSE Raise(ValueError))
    /\ UNCHANGED <<bf, bf_added, bf_base, protoVars, webVars>>

\* bf.union(other)
BfUnion(other) ==
    /\ bf_ret' = Call("union", <<other>>, "none",
                      IF SameParameters(bf, other)
                      THEN Return(BloomUnion(bf, other))
                      ELSE Raise(ValueError))
    /\ UNCHANGED <<bf, bf_added, bf_base, protoVars, webVars>>

NextBloomOps ==
    \/ \E item \in CallerIoCs : BfAdd(item)
    \/ \E items \in CallerLists : BfAddMultiple(items)
    \/ \E item \in CallerIoCs : BfContains(item)
    \/ BfCountSetBits
    \/ BfGetBitArray
    \/ \E bit_array \in BitLists(bf.size) : BfSetBitArray(bit_array)
    \/ \E bit_array \in BitLists(bf.size) : BfFromBitArray(bit_array)
    \/ \E other \in OtherFilters(bf) : BfIntersect(other)
    \/ \E other \in OtherFilters(bf) : BfUnion(other)

SpecBloomOps == InitBloom /\ [][NextBloomOps]_vars

----------------------------------------------------------------------------
(* The construction of a BloomFilter with any size and hash count.          *)

\* The integers passed as size and as hash_count.
Params == -MaxParam .. MaxParam

InitNew ==
    /\ bf = None
    /\ bf_added = <<>>
    /\ bf_ret = Call("none", <<>>, "none", Return(None))
    /\ bf_base = None
    /\ assigned = <<0, 0>>
    /\ WebIdle
    /\ bloom_size \in BloomSizes
    /\ hash_count \in HashCounts
    /\ he_engine = NewHEEngine
    /\ party1 = None
    /\ party2 = None
    /\ keygens = 0
    /\ data1 = <<>>
    /\ data2 = <<>>
    /\ ret = Call("none", <<>>, "none", Return(None))
    /\ computed = FALSE

\* bf = BloomFilter(size, hashes): bf is bound to the new filter unless the
\* constructor raises.
BfNew(size, hashes) ==
    /\ \E made \in {NewBloomFilter(size, hashes)} :
           /\ bf' = IF made.ok THEN made.val ELSE bf
           /\ bf_base' = IF made.ok
                         THEN [bit_array |-> made.val.bit_array, at |-> 0]
                         ELSE bf_base
           /\ bf_ret' = Call("BloomFilter", <<size, hashes>>, "none", made)
    /\ bf_added' = <<>>
    /\ UNCHANGED <<protoVars, webVars>>

NextNew == \E size \in Params, hashes \in Params : BfNew(size, hashes)

SpecNew == InitNew /\ [][NextNew]_vars

----------------------------------------------------------------------------
(* An HEEngine object under any sequence of calls by a caller who also     *)
(* holds other engines: key pairs are numbered in the order they are        *)
(* generated, by this engine or by another, and the caller keeps the        *)
(* serialized keys and can encrypt under any of them.                       *)

\* The serialized contexts of the first n key pairs: the public one (without
\* the secret key) and the private one of each.
KeyBytes(n) == [key : 1 .. n, secret : BOOLEAN]

\* The bit arrays the caller encrypts: of a filter of the given parameters,
\* empty or with one indicator.
CallerBitArrays(size, hashes) ==
    {GetBitArray(BloomAddMultiple(BloomFilter(size, hashes), items)) :
        items \in SeqsUpTo({"10.0.0.1"}, 1)}

\* encrypt(data) on an engine that holds key pair k
EncryptedUnder(k, data) ==
    HEEncrypt(GenerateKeys(NewHEEngine, k), data, FALSE).val

\* What the library's decrypt may do with a ciphertext of another key pair
\* than the context's: raise, or return a vector unrelated to the data.
ForeignOutcomes(data) ==
    {Raise(LibraryError),
     Return([j \in DOMAIN data |-> 1]),
     Return([j \in DOMAIN data |-> 1 - data[j]])}

InitHE ==
    /\ he_engine = NewHEEngine
    /\ keygens = 0
    /\ ret = Call("HEEngine", <<>>, "none", Return(None))
    /\ bloom_size \in BloomSizes
    /\ hash_count \in HashCounts
    /\ party1 = None
    /\ party2 = None
    /\ data1 = <<>>
    /\ data2 = <<>>
    /\ computed = FALSE
    /\ bf = None
    /\ bf_added = <<>>
    /\ bf_ret = None
    /\ bf_base = None
    /\ assigned = <<0, 0>>
    /\ WebIdle

\* he.generate_keys()
HeGenerateKeys ==
    /\ keygens < MaxKeys
    /\ he_engine' = GenerateKeys(he_engine, keygens + 1)
    /\ keygens' = keygens + 1
    /\ ret' = Call("generate_keys", <<>>, "none",
                   Return(<<he_engine'.public_key, he_engine'.private_key>>))
    /\ UNCHANGED <<bloom_size, hash_count, party1, party2, data1, data2,
                   computed, assigned, bloomVars, webVars>>

\* generate_keys() on another engine of the caller
OtherGenerateKeys ==
    /\ keygens < MaxKeys
    /\ keygens' = keygens + 1
    /\ ret' = Call("other.generate_keys", <<>>, "none",
                   Return(<<GenerateKeys(NewHEEngine, keygens + 1).public_key,
                            GenerateKeys(NewHEEngine, keygens + 1).private_key>>))
    /\ UNCHANGED <<he_engine, bloom_size, hash_count, party1, party2, data1,
                   data2, computed, assigned, bloomVars, webVars>>

\* he.load_public_key(key_bytes)
HeLoadPublicKey(key_bytes) ==
    /\ he_engine' = LoadPublicKey(he_engine, key_bytes)
    /\ ret' = Call("load_public_key", <<key_bytes>>, "none", Return(None))
    /\ UNCHANGED <<keygens, bloom_size, hash_count, party1, party2, data1,
                   data2, computed, assigned, bloomVars, webVars>>

\* he.load_private_key(key_bytes)
HeLoadPrivateKey(key_bytes) ==
    /\ he_engine' = LoadPrivateKey(he_engine, key_bytes)
    /\ ret' = Call("load_private_key", <<key_bytes>>, "none", Return(None))
    /\ UNCHANGED <<keygens, bloom_size, hash_count, party1, party2, data1,
                   data2, computed, assigned, bloomVars, webVars>>

\* he.encrypt(data)
HeEncrypt(data) ==
    /\ ret' = Call("encrypt", <<data>>, "none", HEEncrypt(he_engine, data, FALSE))
    /\ UNCHANGED <<he_engine, keygens, bloom_size, hash_count, party1, party2,
                   data1, data2, computed, assigned, bloomVars, webVars>>

\* The engine holds the secret key of a key pair other than the ciphertext's:
\* the one case in which the library's decrypt meets a foreign ciphertext.
HoldsOtherSecretKey(engine, ciphertext) ==
    /\ engine.context # None
    /\ engine.private_key # None
    /\ engine.context.secret
    /\ engine.context.key # ciphertext.ctx

\* he.decrypt(ciphertext), the library doing foreign with a ciphertext of
\* another key pair
HeDecrypt(ciphertext, foreign) ==
    /\ ~HoldsOtherSecretKey(he_engine, ciphertext) => ~foreign.ok
    /\ ret' = Call("decrypt", <<ciphertext>>, "none",
                   HEDecrypt(he_engine, ciphertext, FALSE, foreign))
    /\ UNCHANGED <<he_engine, keygens, bloom_size, hash_count, party1, party2,
                   data1, data2, computed, assigned, bloomVars, webVars>>

NextHE ==
    \/ HeGenerateKeys
    \/ OtherGenerateKeys
    \/ \E key_bytes \in KeyBytes(keygens) : HeLoadPublicKey(key_bytes)
    \/ \E key_bytes \in KeyBytes(keygens) : HeLoadPrivateKey(key_bytes)
    \/ \E data \in CallerBitArrays(bloom_size, hash_count) : HeEncrypt(data)
    \/ \E k \in 1 .. keygens, data \in CallerBitArrays(bloom_size, hash_count) :
           \E foreign \in ForeignOutcomes(data) :
               HeDecrypt(EncryptedUnder(k, data), foreign)

SpecHE == InitHE /\ [][NextHE]_vars

----------------------------------------------------------------------------
(* OverlapCalculator.compute_overlap_statistics on two parties the caller   *)
(* builds directly: each Party with an engine, a filter size and a hash     *)
(* count of its own.                                                        *)

\* Party(name, engine) with its list set, its filter created with the given
\* parameters and encrypted on an engine that holds key pair k.
PartyBuilt(name, iocs, size, hashes, k) ==
    EncryptBloomFilter(
        CreateBloomFilter(SetIocList(NewParty(name, <<"HEEngine", k>>), iocs),
                          size, hashes),
        GenerateKeys(NewHEEngine, k), FALSE).party

\* The IoC lists of the directly built parties.
BuiltLists == SeqsUpTo({"10.0.0.1"}, 1)

InitCalc ==
    /\ keygens = MaxKeys
    /\ he_engine = GenerateKeys(NewHEEngine, 1)
    /\ party1 \in {PartyBuilt("ISP-A", iocs, size, hashes, k) :
                      iocs \in BuiltLists, size \in BloomSizes,
                      hashes \in HashCounts, k \in 1 .. MaxKeys}
    /\ party2 \in {PartyBuilt("ISP-B", iocs, size, hashes, k) :
                      iocs \in BuiltLists, size \in BloomSizes,
                      hashes \in HashCounts, k \in 1 .. MaxKeys}
    /\ bloom_size = party1.bloom_filter.size
    /\ hash_count = party1.bloom_filter.hash_count
    /\ data1 = party1.ioc_list
    /\ data2 = party2.ioc_list
    /\ ret = Call("none", <<>>, "none", Return(None))
    /\ computed = FALSE
    /\ bf = None
    /\ bf_added = <<>>
    /\ bf_ret = None
    /\ bf_base = None
    /\ assigned = <<1, 1>>
    /\ WebIdle

\* The product of the two parties' encrypted filters is a ciphertext of the
\* engine's key pair.
ProductOfOwnKey(engine, p1, p2) ==
    /\ p1.encrypted_bloom.ctx = p2.encrypted_bloom.ctx
    /\ p1.encrypted_bloom.ctx = engine.context.key

\* OverlapCalculator(he_engine).compute_overlap_statistics(
\*     party1.bloom_filter, party2.bloom_filter,
\*     party1.encrypted_bloom, party2.encrypted_bloom),
\* the library's decrypt doing foreign with a ciphertext of another key pair
CalcComputeOverlapStatistics(foreign) ==
    /\ ProductOfOwnKey(he_engine, party1, party2) => ~foreign.ok
    /\ ret' = Call("compute_overlap_statistics", <<>>, "none",
                   ComputeOverlapStatistics(he_engine,
                       party1.bloom_filter, party2.bloom_filter,
                       party1.encrypted_bloom, party2.encrypted_bloom,
                       "none", foreign))
    /\ UNCHANGED <<he_engine, keygens, bloom_size, hash_count, party1, party2,
                   data1, data2, computed, assigned, bloomVars, webVars>>

NextCalc ==
    \E foreign \in ForeignOutcomes(party1.encrypted_bloom.data) :
        CalcComputeOverlapStatistics(foreign)

SpecCalc == InitCalc /\ [][NextCalc]_vars

----------------------------------------------------------------------------
(* The two arithmetic functions of an OverlapCalculator, called with any    *)
(* non-negative bit counts.                                                 *)

BitCounts == 0 .. MaxBits

InitEstimate ==
    /\ bloom_size \in BloomSizes
    /\ hash_count \in HashCounts
    /\ he_engine = NewHEEngine
    /\ party1 = None
    /\ party2 = None
    /\ keygens = 0
    /\ data1 = <<>>
    /\ data2 = <<>>
    /\ ret = Call("OverlapCalculator", <<>>, "none", Return(None))
    /\ computed = FALSE
    /\ bf = None
    /\ bf_added = <<>>
    /\ bf_ret = None
    /\ bf_base = None
    /\ assigned = <<0, 0>>
    /\ WebIdle

\* calculator.calculate_jaccard_similarity(overlap_bits, bloom1_bits, bloom2_bits)
CalcJaccard(overlap_bits, bloom1_bits, bloom2_bits) ==
    /\ ret' = Call("calculate_jaccard_similarity",
                   <<overlap_bits, bloom1_bits, bloom2_bits>>, "none",
                   Return(CalculateJaccardSimilarity(overlap_bits, bloom1_bits,
                                                     bloom2_bits)))
    /\ UNCHANGED <<he_engine, keygens, bloom_size, hash_count, party1, party2,
                   data1, data2, computed, assigned, bloomVars, webVars>>

\* calculator.estimate_set_overlap(overlap_bits, bloom1_bits, bloom2_bits,
\*                                 bloom_size, hash_count)
CalcEstimate(overlap_bits, bloom1_bits, bloom2_bits) ==
    /\ ret' = Call("estimate_set_overlap",
                   <<overlap_bits, bloom1_bits, bloom2_bits, bloom_size,
                     hash_count>>, "none",
                   Return(EstimateSetOverlap(overlap_bits, bloom1_bits,
                                             bloom2_bits, bloom_size, hash_count)))
    /\ UNCHANGED <<he_engine, keygens, bloom_size, hash_count, party1, party2,
                   data1, data2, computed, assigned, bloomVars, webVars>>

NextEstimate ==
    \/ \E o \in BitCounts, b1 \in BitCounts, b2 \in BitCounts :
           CalcJaccard(o, b1, b2)
    \/ \E o \in BitCounts, b1 \in BitCounts, b2 \in BitCounts :
           CalcEstimate(o, b1, b2)

SpecEstimate == InitEstimate /\ [][NextEstimate]_vars

----------------------------------------------------------------------------
(* estimate_items, the inner function of estimate_set_overlap, on filters   *)
(* of realistic sizes: 10000 is the default bloom_size.                     *)

RatioSizes == {4, 1000, 2000, 10000}

\* The numbers of set bits tried for a filter size: the lowest and the ones
\* around the size.
RatioBits(size) == {b \in 1 .. size + 1 : b <= 10 \/ b >= size - 30}

InitRatio ==
    /\ bloom_size \in RatioSizes
    /\ hash_count \in HashCounts
    /\ he_engine = NewHEEngine
    /\ party1 = None
    /\ party2 = None
    /\ keygens = 0
    /\ data1 = <<>>
    /\ data2 = <<>>
    /\ ret = Call("OverlapCalculator", <<>>, "none", Return(None))
    /\ computed = FALSE
    /\ bf = None
    /\ bf_added = <<>>
    /\ bf_ret = None
    /\ bf_base = None
    /\ assigned = <<0, 0>>
    /\ WebIdle

\* estimate_items(set_bits) within estimate_set_overlap(.., bloom_size,
\* hash_count); ret holds the ratio handed to the logarithm
CalcEstimateItems(set_bits) ==
    /\ ret' = Call("estimate_items", <<set_bits, bloom_size>>, "none",
                   Return([ratio |-> LogRatio(set_bits, bloom_size)]))
    /\ UNCHANGED <<he_engine, keygens, bloom_size, hash_count, party1, party2,
                   data1, data2, computed, assigned, bloomVars, webVars>>

NextRatio == \E set_bits \in RatioBits(bloom_size) : CalcEstimateItems(set_bits)

SpecRatio == InitRatio /\ [][NextRatio]_vars

----------------------------------------------------------------------------
(* DatasetLoader.create_test_datasets (src/src/data/dataset_loader.py).     *)
(* What the random module returns is the caller's to know after the call    *)
(* only: every outcome it can produce is a possible one.                    *)

\* The addresses generate_random_ip can return, as IPAddress objects under
\* str: two of the 2^32.
RandomIPs == {"10.0.0.1", "10.0.0.2"}

\* load_synthetic_dataset(size, 'ip'): size addresses drawn independently, so
\* with repetitions; range(size) is empty for a negative size.
LoadSyntheticDataset(size) ==
    IF size <= 0 THEN {<<>>} ELSE [1 .. size -> RandomIPs]

\* The lists random.shuffle can leave in place of list.
Shuffled(list) ==
    {[i \in DOMAIN list |-> list[perm[i]]] :
         perm \in {f \in [DOMAIN list -> DOMAIN list] :
                       \A i, j \in DOMAIN list : f[i] = f[j] => i = j}}

\* int(min(size1, size2) * overlap_percentage / 100), for sizes that are not
\* negative and a percentage in [0, 100]
OverlapSize(size1, size2, overlap_percentage) ==
    (Min(size1, size2) * overlap_percentage) \div 100

\* The percentages the caller passes.
Percentages == {-1, 0, 50, 100, 101}

\* create_test_datasets(size1, size2, overlap_percentage, 'ip'): the results
\* it can return or the error it raises.
CreateTestDatasets(size1, size2, overlap_percentage) ==
    IF ~(0 <= overlap_percentage /\ overlap_percentage <= 100)
    THEN {Raise(ValueError)}
    ELSE LET overlap_size == OverlapSize(size1, size2, overlap_percentage)
         IN  {Return(<<dataset1, dataset2>>) :
                  <<dataset1, dataset2>> \in
                      UNION {Shuffled(overlap_items \o unique1)
                                 \X Shuffled(overlap_items \o unique2) :
                             <<overlap_items, unique1, unique2>> \in
                                 LoadSyntheticDataset(overlap_size)
                                 \X LoadSyntheticDataset(size1 - overlap_size)
                                 \X LoadSyntheticDataset(size2 - overlap_size)}}

InitDatasets ==
    /\ bloom_size \in BloomSizes
    /\ hash_count \in HashCounts
    /\ he_engine = NewHEEngine
    /\ party1 = None
    /\ party2 = None
    /\ keygens = 0
    /\ data1 = <<>>
    /\ data2 = <<>>
    /\ ret = Call("none", <<>>, "none", Return(None))
    /\ computed = FALSE
    /\ bf = None
    /\ bf_added = <<>>
    /\ bf_ret = None
    /\ bf_base = None
    /\ assigned = <<0, 0>>
    /\ WebIdle

\* data1, data2 = DatasetLoader.create_test_datasets(size1, size2,
\*                                                   overlap_percentage, 'ip')
CreateTestDatasetsCall(size1, size2, overlap_percentage) ==
    /\ \E res \in CreateTestDatasets(size1, size2, overlap_percentage) :
           /\ ret' = Call("create_test_datasets",
                          <<size1, size2, overlap_percentage>>, "none", res)
           /\ data1' = IF res.ok THEN res.val[1] ELSE data1
           /\ data2' = IF res.ok THEN res.val[2] ELSE data2
    /\ UNCHANGED <<bloom_size, hash_count, he_engine, party1, party2, keygens,
                   computed, assigned, bloomVars, webVars>>

NextDatasets ==
    \E size1 \in 0 .. MaxSize, size2 \in 0 .. MaxSize,
       overlap_percentage \in Percentages :
        CreateTestDatasetsCall(size1, size2, overlap_percentage)

SpecDatasets == InitDatasets /\ [][NextDatasets]_vars

----------------------------------------------------------------------------
(* verify_correctness on lists of IoC objects (src/src/data/ioc_models.py): *)
(* Domain objects made from raw values that differ in case, in a trailing   *)
(* dot and in surrounding blanks.  data1 and data2 are the caller's lists.   *)

\* The raw values the caller makes Domain objects from.
RawDomains == {"evil.com", "Evil.COM", "evil.com.", " bad.org"}

\* Domain.normalize: strip, lowercase, drop one trailing dot, drop a leading
\* http(s)://, keep what precedes the first '/'.
NormalizeDomain(value) ==
    CASE value = "evil.com" -> "evil.com"
      [] value = "Evil.COM" -> "evil.com"
      [] value = "evil.com." -> "evil.com"
      [] value = " bad.org" -> "bad.org"

\* Domain(value): IoC.__init__
NewDomain(value) ==
    [raw_value |-> value, normalized_value |-> NormalizeDomain(value)]

\* IoC.__str__
Str(ioc) == ioc.normalized_value

\* [str(ioc) for ioc in iocs]
StrAll(iocs) == [i \in DOMAIN iocs |-> Str(iocs[i])]

\* The lists of Domain objects the caller passes.
DomainLists == SeqsUpTo({NewDomain(v) : v \in RawDomains}, MaxItems)

InitVerify ==
    /\ bloom_size \in BloomSizes
    /\ hash_count \in HashCounts
    /\ he_engine = NewHEEngine
    /\ party1 = None
    /\ party2 = None
    /\ keygens = 0
    /\ data1 \in DomainLists
    /\ data2 \in DomainLists
    /\ ret = Call("TwoPartyProtocol", <<bloom_size, hash_count>>, "none",
                  Return(None))
    /\ computed = FALSE
    /\ bf = None
    /\ bf_added = <<>>
    /\ bf_ret = None
    /\ bf_base = None
    /\ assigned = <<0, 0>>
    /\ WebIdle

\* protocol.verify_correctness(iocs1, iocs2) on lists of IoC objects
VerifyObjectsCall(iocs1, iocs2) ==
    /\ ret' = Call("verify_correctness", <<iocs1, iocs2>>, "none",
                   Return(VerifyCorrectness(StrAll(iocs1), StrAll(iocs2))))
    /\ UNCHANGED <<bloom_size, hash_count, he_engine, party1, party2, keygens,
                   data1, data2, computed, assigned, bloomVars, webVars>>

NextVerify ==
    \/ VerifyObjectsCall(data1, data2)
    \/ VerifyObjectsCall(data2, data1)

SpecVerify == InitVerify /\ [][NextVerify]_vars

----------------------------------------------------------------------------
(* One TwoPartyProtocol instance set up again and again, each time with     *)
(* names and IoC lists of the caller's choice, and executed in between.     *)
(* data1 and data2 are the lists passed to the most recent setup_parties.   *)

RoundNames == {<<"ISP-A", "ISP-B">>, <<"ISP-C", "ISP-D">>}

RoundLists == {<<>>, <<"10.0.0.1">>, <<"10.0.0.1", "http://bad.io/x">>}

InitRounds ==
    /\ bloom_size \in BloomSizes
    /\ hash_count \in HashCounts
    /\ he_engine = NewHEEngine
    /\ party1 = None
    /\ party2 = None
    /\ keygens = 0
    /\ data1 = <<>>
    /\ data2 = <<>>
    /\ ret = Call("TwoPartyProtocol", <<bloom_size, hash_count>>, "none",
                  Return(None))
    /\ computed = FALSE
    /\ bf = None
    /\ bf_added = <<>>
    /\ bf_ret = None
    /\ bf_base = None
    /\ assigned = <<0, 0>>
    /\ WebIdle

\* protocol.setup_parties(names[1], names[2], iocs1, iocs2)
SetupPartiesWith(names, iocs1, iocs2) ==
    /\ keygens < MaxSetups
    /\ \E after \in {SetupParties(he_engine, names, iocs1, iocs2,
                                    bloom_size, hash_count, keygens + 1)} :
           /\ he_engine' = after.he_engine
           /\ party1' = after.party1
           /\ party2' = after.party2
    /\ keygens' = keygens + 1
    /\ data1' = iocs1
    /\ data2' = iocs2
    /\ computed' = FALSE
    /\ assigned' = <<0, 0>>
    /\ ret' = Call("setup_parties", <<names[1], names[2], iocs1, iocs2>>,
                   "none", Return(None))
    /\ UNCHANGED <<bloom_size, hash_count, bloomVars, webVars>>

NextRounds ==
    \/ \E names \in RoundNames, iocs1 \in RoundLists, iocs2 \in RoundLists :
           SetupPartiesWith(names, iocs1, iocs2)
    \/ \E fault \in Faults : ExecuteProtocolRound(fault)

SpecRounds == InitRounds /\ [][NextRounds]_vars

----------------------------------------------------------------------------
(* Simulations that run concurrently, as the threads of the web front end   *)
(* run them (web/app.py:112, 195-197): each thread executes run_simulation  *)
(* on its own arguments, and the steps of the threads interleave.           *)
(* runners[i] holds thread i's position and the locals of its               *)
(* run_simulation call: the arguments, the TwoPartyProtocol instance it     *)
(* created, the two ciphertexts execute_protocol holds, and the results.    *)
(* keygens names the key pairs the library draws: each is new.              *)

SimIds == {"sim-1", "sim-2"}

AttributeError == [exc |-> "AttributeError"]

\* TwoPartyProtocol.__init__: the instance's engine and parties.
NewProtocol == [he_engine |-> NewHEEngine, party1 |-> None, party2 |-> None]

\* A run_simulation that works on one module-level TwoPartyProtocol instance,
\* the one of "sim-1".
ProtocolOfFirst(i) == "sim-1"

\* The TwoPartyProtocol instance that run_simulation i works on: the one it
\* created itself (protocol.py:241), held in its local variable protocol.
ProtocolOf(i) == i

\* The arguments a thread passes to run_simulation.
SimArguments ==
    [iocs1 : RoundLists, iocs2 : RoundLists, bloom_size : BloomSizes]

\* A thread that is about to call run_simulation with the arguments a.
RunnerStarted(a) ==
    [pc |-> "call", iocs1 |-> a.iocs1, iocs2 |-> a.iocs2,
     bloom_size |-> a.bloom_size, protocol |-> None,
     encrypted1 |-> None, encrypted2 |-> None, results |-> None]

InitSims ==
    /\ bloom_size \in BloomSizes
    /\ hash_count \in HashCounts
    /\ he_engine = NewHEEngine
    /\ party1 = None
    /\ party2 = None
    /\ keygens = 0
    /\ data1 = <<>>
    /\ data2 = <<>>
    /\ ret = Call("none", <<>>, "none", Return(None))
    /\ computed = FALSE
    /\ bf = None
    /\ bf_added = <<>>
    /\ bf_ret = None
    /\ bf_base = None
    /\ assigned = <<0, 0>>
    /\ simulations = <<>>
    /\ simulation_queues = <<>>
    /\ streams = <<>>
    /\ runners \in [SimIds -> {RunnerStarted(a) : a \in SimArguments}]

\* What every step of a thread leaves alone.
SimFrame ==
    UNCHANGED <<bloom_size, hash_count, he_engine, party1, party2, data1, data2,
                ret, computed, assigned, bloomVars, simulations,
                simulation_queues, streams>>

\* run_simulation fails in thread i with the exception exc.
SimRaised(i, exc) ==
    [runners EXCEPT ![i].pc = "done", ![i].results = Raise(exc)]

\* protocol = TwoPartyProtocol(bloom_size, hash_count)       (protocol.py:241)
SimNewProtocol(i) ==
    /\ runners[i].pc = "call"
    /\ runners' = [runners EXCEPT ![ProtocolOf(i)].protocol = NewProtocol,
                                  ![i].pc = "generate_keys"]
    /\ UNCHANGED keygens
    /\ SimFrame

\* setup_parties: self.he_engine.generate_keys()              (protocol.py:122)
SimGenerateKeys(i) ==
    /\ runners[i].pc = "generate_keys"
    /\ runners' = [runners EXCEPT
           ![ProtocolOf(i)].protocol.he_engine =
               GenerateKeys(runners[ProtocolOf(i)].protocol.he_engine, keygens + 1),
           ![i].pc = "create_parties"]
    /\ keygens' = keygens + 1
    /\ SimFrame

\* setup_parties: the parties, their lists and filters    (protocol.py:125-134)
SimCreateParties(i) ==
    /\ runners[i].pc = "create_parties"
    /\ runners' = [runners EXCEPT
           ![ProtocolOf(i)].protocol.party1 =
               CreateBloomFilter(
                   SetIocList(NewParty("ISP-A", EngineRef), runners[i].iocs1),
                   runners[i].bloom_size, hash_count),
           ![ProtocolOf(i)].protocol.party2 =
               CreateBloomFilter(
                   SetIocList(NewParty("ISP-B", EngineRef), runners[i].iocs2),
                   runners[i].bloom_size, hash_count),
           ![i].pc = "encrypt1"]
    /\ UNCHANGED keygens
    /\ SimFrame

\* execute_protocol: the check of the parties and
\* encrypted1 = self.party1.encrypt_bloom_filter()        (protocol.py:143-147)
SimEncrypt1(i) ==
    /\ runners[i].pc = "encrypt1"
    /\ LET proto == runners[ProtocolOf(i)].protocol
           enc == EncryptBloomFilter(proto.party1, proto.he_engine, FALSE)
       IN  runners' =
               IF NotSetUp(proto.party1, proto.party2)
               THEN SimRaised(i, ValueError)
               ELSE IF ~enc.res.ok THEN SimRaised(i, enc.res.exc)
               ELSE [runners EXCEPT ![ProtocolOf(i)].protocol.party1 = enc.party,
                                    ![i].encrypted1 = enc.res.val,
                                    ![i].pc = "encrypt2"]
    /\ UNCHANGED keygens
    /\ SimFrame

\* execute_protocol: encrypted2 = self.party2.encrypt_bloom_filter()
\*                                                            (protocol.py:148)
SimEncrypt2(i) ==
    /\ runners[i].pc = "encrypt2"
    /\ LET proto == runners[ProtocolOf(i)].protocol
           enc == EncryptBloomFilter(proto.party2, proto.he_engine, FALSE)
       IN  runners' =
               IF proto.party2 = None THEN SimRaised(i, AttributeError)
               ELSE IF ~enc.res.ok THEN SimRaised(i, enc.res.exc)
               ELSE [runners EXCEPT ![ProtocolOf(i)].protocol.party2 = enc.party,
                                    ![i].encrypted2 = enc.res.val,
                                    ![i].pc = "compute"]
    /\ UNCHANGED keygens
    /\ SimFrame

\* execute_protocol from compute_overlap_statistics on, and the verification
\* of run_simulation (protocol.py:151-189, 249-263); foreign is what the
\* library's decrypt does with a ciphertext of another key pair
SimCompute(i) ==
    /\ runners[i].pc = "compute"
    /\ \E foreign \in ForeignOutcomes(runners[i].encrypted1.data) :
       LET proto == runners[ProtocolOf(i)].protocol
           me == runners[i]
           stats == ComputeOverlapStatistics(proto.he_engine,
                        proto.party1.bloom_filter, proto.party2.bloom_filter,
                        me.encrypted1, me.encrypted2, "none", foreign)
       IN  /\ (/\ proto.party1 # None
               /\ proto.party2 # None
               /\ proto.he_engine.context # None
               /\ me.encrypted1.ctx = proto.he_engine.context.key
               /\ me.encrypted2.ctx = proto.he_engine.context.key) => ~foreign.ok
           /\ runners' =
               IF proto.party1 = None \/ proto.party2 = None
               THEN SimRaised(i, AttributeError)
               ELSE IF ~stats.ok THEN SimRaised(i, stats.exc)
               ELSE [runners EXCEPT
                        ![i].pc = "done",
                        ![i].results =
                            Return(WithVerification(
                                ProtocolResult(stats.val,
                                    GetBloomStats(proto.party1),
                                    GetBloomStats(proto.party2),
                                    me.bloom_size, hash_count),
                                VerifyCorrectness(me.iocs1, me.iocs2)))]
    /\ UNCHANGED keygens
    /\ SimFrame

NextSims ==
    \E i \in SimIds :
        \/ SimNewProtocol(i)
        \/ SimGenerateKeys(i)
        \/ SimCreateParties(i)
        \/ SimEncrypt1(i)
        \/ SimEncrypt2(i)
        \/ SimCompute(i)

SpecSims == InitSims /\ [][NextSims]_vars

----------------------------------------------------------------------------
(* The web front end (web/app.py): the registry simulations, the status     *)
(* queues simulation_queues, the background thread of each started          *)
(* simulation, and the clients' status streams and results requests.        *)
(* simulations[id] is the registry entry of a started simulation,           *)
(* simulation_queues[id] the content of its runner's status queue,          *)
(* runners[id] the position and locals of its thread (a dataset not yet     *)
(* bound is the empty list), and streams[c] what                            *)
(* client c has asked for and received on its status stream: the status     *)
(* updates, and whether a keepalive was sent. ret is the latest response to *)
(* a results request.                                                       *)

\* The number of simulations that are started.
MaxSimulations == 1

ClientIds == {"client-1", "client-2"}

\* The lists that dataset generation or loading can give a simulation.
WebDatasets == {<<"10.0.0.1">>, <<"10.0.0.1", "http://bad.io/x">>}

Terminal == {"complete", "error"}

\* The configuration that every simulation is posted with.
WebConfig == [bloom_size |-> 4, hash_count |-> 2]

\* What run_simulation returns for each pair of datasets under WebConfig.
WebResults ==
    [d \in WebDatasets \X WebDatasets |->
        RunSimulation(d[1], d[2], WebConfig.bloom_size, WebConfig.hash_count,
                      TRUE, "none", 0)]

\* A status update of the given stage; results is None but for 'complete'.
StatusUpdate(stage, results) == [stage |-> stage, results |-> results]

NotFound == [stage |-> "not found", results |-> None]

\* A client that has made no request yet.
NoRequests == [pc |-> "idle", sim_id |-> "", got |-> <<>>, keepalive |-> FALSE]

InitWeb ==
    /\ bloom_size = WebConfig.bloom_size
    /\ hash_count = WebConfig.hash_count
    /\ he_engine = NewHEEngine
    /\ party1 = None
    /\ party2 = None
    /\ keygens = 0
    /\ data1 = <<>>
    /\ data2 = <<>>
    /\ ret = Call("none", <<>>, "none", Return(None))
    /\ computed = FALSE
    /\ bf = None
    /\ bf_added = <<>>
    /\ bf_ret = None
    /\ bf_base = None
    /\ assigned = <<0, 0>>
    /\ simulations = <<>>
    /\ simulation_queues = <<>>
    /\ runners = <<>>
    /\ streams = [c \in ClientIds |-> NoRequests]

WebFrame ==
    UNCHANGED <<bloom_size, hash_count, he_engine, party1, party2, keygens,
                data1, data2, computed, assigned, bloomVars>>

\* f with the key k set to v (a dict assignment).
DictSet(f, k, v) == [x \in DOMAIN f \cup {k} |-> IF x = k THEN v ELSE f[x]]

\* self.status_queue.put(update) in the thread of simulation id.
QueuePut(id, update) ==
    [simulation_queues EXCEPT ![id] = Append(@, update)]

\* POST /api/run: a new id, its registry entry 'running', its thread started
\* and its runner's queue registered. The id is returned by this request, so
\* no other request names it before the handler has finished.
RunSimulationApi(id) ==
    /\ id \notin DOMAIN simulations
    /\ Cardinality(DOMAIN simulations) < MaxSimulations
    /\ simulations' = DictSet(simulations, id,
                              [status |-> "running", results |-> None])
    /\ simulation_queues' = DictSet(simulation_queues, id, <<>>)
    /\ runners' = DictSet(runners, id,
                          [pc |-> "generating", dataset1 |-> <<>>,
                           dataset2 |-> <<>>, results |-> None])
    /\ UNCHANGED <<streams, ret>>
    /\ WebFrame

\* run: status_queue.put({'stage': 'generating', ...})        (app.py:41-45)
RunPutGenerating(id) ==
    /\ id \in DOMAIN runners
    /\ runners[id].pc = "generating"
    /\ simulation_queues' = QueuePut(id, StatusUpdate("generating", None))
    /\ runners' = [runners EXCEPT ![id].pc = "datasets"]
    /\ UNCHANGED <<simulations, streams, ret>>
    /\ WebFrame

\* run: the datasets are generated or fetched (app.py:48-92); a wrong
\* configuration or a failed download raises
RunDatasets(id, d1, d2, fails) ==
    /\ id \in DOMAIN runners
    /\ runners[id].pc = "datasets"
    /\ runners' = IF fails
                  THEN [runners EXCEPT ![id].pc = "put_error"]
                  ELSE [runners EXCEPT ![id].pc = "encrypting",
                                       ![id].dataset1 = d1,
                                       ![id].dataset2 = d2]
    /\ UNCHANGED <<simulations, simulation_queues, streams, ret>>
    /\ WebFrame

\* run: status_queue.put({'stage': 'encrypting', ...})        (app.py:95-99)
RunPutEncrypting(id) ==
    /\ id \in DOMAIN runners
    /\ runners[id].pc = "encrypting"
    /\ simulation_queues' = QueuePut(id, StatusUpdate("encrypting", None))
    /\ runners' = [runners EXCEPT ![id].pc = "computing"]
    /\ UNCHANGED <<simulations, streams, ret>>
    /\ WebFrame

\* run: status_queue.put({'stage': 'computing', ...})       (app.py:104-108)
RunPutComputing(id) ==
    /\ id \in DOMAIN runners
    /\ runners[id].pc = "computing"
    /\ simulation_queues' = QueuePut(id, StatusUpdate("computing", None))
    /\ runners' = [runners EXCEPT ![id].pc = "run_simulation"]
    /\ UNCHANGED <<simulations, streams, ret>>
    /\ WebFrame

\* run: results = run_simulation(dataset1, dataset2, ...)   (app.py:112-123)
RunRunSimulation(id) ==
    /\ id \in DOMAIN runners
    /\ runners[id].pc = "run_simulation"
    /\ LET results == WebResults[<<runners[id].dataset1, runners[id].dataset2>>]
       IN  runners' = IF results.ok
                      THEN [runners EXCEPT ![id].pc = "put_complete",
                                           ![id].results = results.val]
                      ELSE [runners EXCEPT ![id].pc = "put_error"]
    /\ UNCHANGED <<simulations, simulation_queues, streams, ret>>
    /\ WebFrame

\* run: status_queue.put({'stage': 'complete', ..., 'results': results})
\*                                                          (app.py:126-131)
RunPutComplete(id) ==
    /\ id \in DOMAIN runners
    /\ runners[id].pc = "put_complete"
    /\ simulation_queues' =
           QueuePut(id, StatusUpdate("complete", runners[id].results))
    /\ runners' = [runners EXCEPT ![id].pc = "store_complete"]
    /\ UNCHANGED <<simulations, streams, ret>>
    /\ WebFrame

\* run: simulations[self.sim_id] = {'status': 'complete', ...}
\*                                                          (app.py:134-138)
RunStoreComplete(id) ==
    /\ id \in DOMAIN runners
    /\ runners[id].pc = "store_complete"
    /\ simulations' = [simulations EXCEPT
           ![id] = [status |-> "complete", results |-> runners[id].results]]
    /\ runners' = [runners EXCEPT ![id].pc = "done"]
    /\ UNCHANGED <<simulation_queues, streams, ret>>
    /\ WebFrame

\* run, except: status_queue.put({'stage': 'error', ...})   (app.py:141-145)
RunPutError(id) ==
    /\ id \in DOMAIN runners
    /\ runners[id].pc = "put_error"
    /\ simulation_queues' = QueuePut(id, StatusUpdate("error", None))
    /\ runners' = [runners EXCEPT ![id].pc = "store_error"]
    /\ UNCHANGED <<simulations, streams, ret>>
    /\ WebFrame

\* run, except: simulations[self.sim_id] = {'status': 'error', ...}
\*                                                          (app.py:146-150)
RunStoreError(id) ==
    /\ id \in DOMAIN runners
    /\ runners[id].pc = "store_error"
    /\ simulations' = [simulations EXCEPT
           ![id] = [status |-> "error", results |-> None]]
    /\ runners' = [runners EXCEPT ![id].pc = "done"]
    /\ UNCHANGED <<simulation_queues, streams, ret>>
    /\ WebFrame

\* GET /api/status/<id>: the generator starts; an id without a queue gets
\* the 'not found' event and the stream ends                (app.py:209-214)
SimulationStatus(c, id) ==
    /\ streams[c].pc = "idle"
    /\ streams' = IF id \notin DOMAIN simulation_queues
                  THEN [streams EXCEPT ![c].pc = "closed", ![c].sim_id = id,
                                       ![c].got = <<NotFound>>]
                  ELSE [streams EXCEPT ![c].pc = "open", ![c].sim_id = id]
    /\ UNCHANGED <<simulations, simulation_queues, runners, ret>>
    /\ WebFrame

\* generate: status_queue.get returns the oldest update, which is yielded
\* to this client; a terminal stage ends the stream         (app.py:219-224)
StreamGet(c) ==
    /\ streams[c].pc = "open"
    /\ simulation_queues[streams[c].sim_id] # <<>>
    /\ LET id == streams[c].sim_id
           status == Head(simulation_queues[id])
       IN  /\ simulation_queues' = [simulation_queues EXCEPT ![id] = Tail(@)]
           /\ streams' = [streams EXCEPT
                  ![c].got = Append(@, status),
                  ![c].pc = IF status.stage \in Terminal
                            THEN "closed" ELSE "open"]
    /\ UNCHANGED <<simulations, runners, ret>>
    /\ WebFrame

\* generate: status_queue.get times out on the empty queue, a keepalive is
\* yielded and the loop goes on                             (app.py:226-228)
StreamKeepalive(c) ==
    /\ streams[c].pc = "open"
    /\ simulation_queues[streams[c].sim_id] = <<>>
    /\ streams' = [streams EXCEPT ![c].keepalive = TRUE]
    /\ UNCHANGED <<simulations, simulation_queues, runners, ret>>
    /\ WebFrame

\* Client c's stream has delivered the 'complete' event of simulation id.
ReceivedComplete(c, id) ==
    /\ streams[c].sim_id = id
    /\ \E n \in DOMAIN streams[c].got : streams[c].got[n].stage = "complete"

\* GET /api/results/<id> by client c: the registry entry, or 404; the
\* response is kept in ret, with whether c's stream had delivered 'complete'
\* for id before the request                                (app.py:233-239)
GetResults(c, id) ==
    /\ ret' = Call("get_results", <<c, id, ReceivedComplete(c, id)>>, "none",
                   IF id \in DOMAIN simulations
                   THEN Return(simulations[id])
                   ELSE Raise([exc |-> "404"]))
    /\ UNCHANGED <<simulations, simulation_queues, runners, streams>>
    /\ WebFrame

\* A step of the thread of simulation id other than the run_simulation call.
RunnerUpdate(id) ==
    \/ RunPutGenerating(id)
    \/ \E d1, d2 \in WebDatasets : RunDatasets(id, d1, d2, FALSE)
    \/ RunDatasets(id, <<>>, <<>>, TRUE)
    \/ RunPutEncrypting(id)
    \/ RunPutComputing(id)
    \/ RunPutComplete(id)
    \/ RunStoreComplete(id)
    \/ RunPutError(id)
    \/ RunStoreError(id)

NextWeb ==
    \/ \E id \in SimIds : RunSimulationApi(id)
    \/ \E id \in SimIds : RunnerUpdate(id)
    \/ \E id \in SimIds : RunRunSimulation(id)
    \/ \E c \in ClientIds, id \in SimIds : SimulationStatus(c, id)
    \/ \E c \in ClientIds : StreamGet(c)
    \/ \E c \in ClientIds : StreamKeepalive(c)
    \/ \E c \in ClientIds, id \in SimIds : GetResults(c, id)

SpecWeb == InitWeb /\ [][NextWeb]_vars

\* The thread of simulation id is inside its run_simulation call.
InRunSimulation(id) ==
    id \in DOMAIN runners /\ runners[id].pc = "run_simulation"

\* The thread of a started simulation runs on (a daemon thread of a live
\* server) and its run_simulation call returns: RunRunSimulation is enabled
\* exactly while the thread is in the call and always leaves it, so its weak
\* fairness is that the thread is not in the call for ever. The server keeps
\* iterating the generator of an open stream.
SpecWebFair ==
    /\ SpecWeb
    /\ \A id \in SimIds : WF_vars(RunnerUpdate(id))
    /\ \A id \in SimIds : []<>(~InRunSimulation(id))
    /\ \A c \in ClientIds : WF_vars(StreamGet(c))
    /\ \A c \in ClientIds : WF_vars(StreamKeepalive(c))

----------------------------------------------------------------------------
(* A Party object on its own, whose caller calls its methods in any order.  *)
(* party1 is the Party, he_engine the engine it was constructed with, and   *)
(* data1 holds the list the caller last passed to set_ioc_list: <<iocs>>,   *)
(* and <<>> before the first call.                                          *)

InitParty ==
    /\ he_engine \in {NewHEEngine, GenerateKeys(NewHEEngine, 1)}
    /\ keygens = IF he_engine = NewHEEngine THEN 0 ELSE 1
    /\ bloom_size \in BloomSizes
    /\ hash_count \in HashCounts
    /\ party1 \in {NewParty(name, <<"HEEngine", 1>>) : name \in {"ISP-A", "ISP-B"}}
    /\ party2 = None
    /\ data1 = <<>>
    /\ data2 = <<>>
    /\ ret = Call("Party", <<party1.name>>, "none", Return(None))
    /\ computed = FALSE
    /\ bf = None
    /\ bf_added = <<>>
    /\ bf_ret = None
    /\ bf_base = None
    /\ assigned = <<0, 0>>
    /\ WebIdle

\* party.set_ioc_list(iocs)
PartySetIocList(iocs) ==
    /\ party1' = SetIocList(party1, iocs)
    /\ data1' = <<iocs>>
    /\ ret' = Call("set_ioc_list", <<iocs>>, "none", Return(None))
    /\ UNCHANGED <<he_engine, keygens, bloom_size, hash_count, party2, data2,
                   computed, assigned, bloomVars, webVars>>

\* party.create_bloom_filter(bloom_size, hash_count)
PartyCreateBloomFilter ==
    /\ party1' = CreateBloomFilter(party1, bloom_size, hash_count)
    /\ ret' = Call("create_bloom_filter", <<bloom_size, hash_count>>, "none",
                   Return(None))
    /\ UNCHANGED <<he_engine, keygens, bloom_size, hash_count, party2, data1,
                   data2, computed, assigned, bloomVars, webVars>>

\* party.encrypt_bloom_filter(), the library's encrypt raising if fails;
\* without a filter or a context the library is not reached
PartyEncryptBloomFilter(fails) ==
    /\ (party1.bloom_filter = None \/ he_engine.context = None) => ~fails
    /\ \E after \in {EncryptBloomFilter(party1, he_engine, fails)} :
           /\ party1' = after.party
           /\ ret' = Call("encrypt_bloom_filter", <<>>,
                          IF fails THEN "encrypt1" ELSE "none", after.res)
           /\ assigned' = <<CountAssigned(assigned[1], after.res.ok), assigned[2]>>
    /\ UNCHANGED <<he_engine, keygens, bloom_size, hash_count, party2, data1,
                   data2, computed, bloomVars, webVars>>

\* party.get_bloom_stats()
PartyGetBloomStats ==
    /\ ret' = Call("get_bloom_stats", <<>>, "none", Return(GetBloomStats(party1)))
    /\ UNCHANGED <<he_engine, keygens, bloom_size, hash_count, party1, party2,
                   data1, data2, computed, assigned, bloomVars, webVars>>

NextParty ==
    \/ \E iocs \in CallerLists : PartySetIocList(iocs)
    \/ PartyCreateBloomFilter
    \/ \E fails \in BOOLEAN : PartyEncryptBloomFilter(fails)
    \/ PartyGetBloomStats

SpecParty == InitParty /\ [][NextParty]_vars

----------------------------------------------------------------------------
(* Properties. *)

\* execute_protocol or run_simulation has just returned a result.
ResultReturned ==
    ret.call \in {"execute_protocol", "run_simulation"} /\ ret.res.ok

IsFraction(x) ==
    /\ DOMAIN x = {"num", "den"}
    /\ x.num \in Nat
    /\ x.den \in Nat \ {0}

ResultKeys ==
    {"overlap_statistics", "party1_info", "party2_info", "bloom_filter_params",
     "privacy_preserved", "raw_iocs_exposed"}

IsPartyInfo(info) ==
    /\ DOMAIN info = {"name", "ioc_count", "bloom_set_bits"}
    /\ info.name \in {"ISP-A", "ISP-B"}
    /\ info.name \notin IoCs
    /\ info.ioc_count \in Nat
    /\ info.bloom_set_bits \in Nat

IsVerification(v) ==
    /\ DOMAIN v = {"actual_overlap", "actual_jaccard_similarity", "set1_size",
                   "set2_size", "union_size"}
    /\ v.actual_overlap \in Nat
    /\ IsFraction(v.actual_jaccard_similarity)
    /\ v.set1_size \in Nat
    /\ v.set2_size \in Nat
    /\ v.union_size \in Nat

IsAccuracy(a) ==
    /\ DOMAIN a = {"estimated_overlap", "actual_overlap", "error",
                   "error_percentage"}
    /\ a.estimated_overlap \in Nat
    /\ a.actual_overlap \in Nat
    /\ a.error \in Nat
    /\ IsFraction(a.error_percentage)

\* C1: every result returned by execute_protocol or run_simulation, verified
\* or not, has exactly the aggregate fields (overlap statistics, party name,
\* item count, set-bit count, filter parameters, the two flags and, when
\* verified, the verification and accuracy counts), each a number, a flag or
\* a party name: no field holds an indicator string, an item list or a bit
\* vector.
C1_OnlyAggregates ==
    ResultReturned =>
        LET r == ret.res.val
        IN  /\ \/ DOMAIN r = ResultKeys
               \/ DOMAIN r = ResultKeys \cup {"verification", "accuracy"}
            /\ DOMAIN r.overlap_statistics =
                   {"estimated_item_overlap", "jaccard_similarity", "overlap_bits"}
            /\ r.overlap_statistics.estimated_item_overlap \in Nat
            /\ IsFraction(r.overlap_statistics.jaccard_similarity)
            /\ r.overlap_statistics.overlap_bits \in Nat
            /\ IsPartyInfo(r.party1_info)
            /\ IsPartyInfo(r.party2_info)
            /\ DOMAIN r.bloom_filter_params = {"size", "hash_count"}
            /\ r.bloom_filter_params.size \in Nat
            /\ r.bloom_filter_params.hash_count \in Nat
            /\ r.privacy_preserved \in BOOLEAN
            /\ r.raw_iocs_exposed \in BOOLEAN
            /\ "verification" \in DOMAIN r => IsVerification(r.verification)
            /\ "accuracy" \in DOMAIN r => IsAccuracy(r.accuracy)

\* A verified run_simulation over two lists that share an indicator returned.
C1_Witness ==
    /\ ret.call = "run_simulation"
    /\ ret.res.ok
    /\ "verification" \in DOMAIN ret.res.val
    /\ Range(data1) \cap Range(data2) # {}

\* C2: every result execute_protocol returns has privacy_preserved = TRUE and
\* raw_iocs_exposed = FALSE, and so has the result run_simulation returns after
\* its verification and accuracy steps.
C2_PrivacyFlags ==
    ResultReturned =>
        /\ ret.res.val.privacy_preserved = TRUE
        /\ ret.res.val.raw_iocs_exposed = FALSE

\* run_simulation returned a result with the accuracy record attached, and
\* execute_protocol could return one on the instance.
C2_Witness ==
    /\ ret.call = "run_simulation"
    /\ ret.res.ok
    /\ "accuracy" \in DOMAIN ret.res.val
    /\ ProtocolState # "Created"

\* C3: after any sequence of add and add_multiple calls on a filter,
\* contains(x) is true for every item x that was added, and a contains call
\* on an added item returned True.
C3_NoFalseNegatives ==
    /\ \A x \in Range(bf_added) : BloomContains(bf, x)
    /\ (bf_ret.call = "contains" /\ bf_ret.args[1] \in Range(bf_added))
           => bf_ret.res.val = TRUE

\* contains returned True for one of several added items.
C3_Witness ==
    /\ Len(bf_added) >= 2
    /\ Cardinality(Range(bf_added)) >= 2
    /\ bf_ret.call = "contains"
    /\ bf_ret.args[1] \in Range(bf_added)
    /\ bf_ret.res.val = TRUE

\* C4: the overlap_bits execute_protocol obtains on the encrypted path
\* (encrypt both bit arrays, multiply_encrypted, decrypt, sum) is the number of
\* indices at which both parties' plaintext filters have bit 1: the set-bit
\* count of the plaintext intersect of the two filters.
C4_EncryptedOverlapIsIntersection ==
    (ret.call = "execute_protocol" /\ ret.res.ok) =>
        /\ ret.res.val.overlap_statistics.overlap_bits =
               CountSetBits(BloomIntersect(party1.bloom_filter,
                                           party2.bloom_filter))
        /\ ret.res.val.overlap_statistics.overlap_bits =
               Cardinality({j \in 0 .. bloom_size - 1 :
                               /\ party1.bloom_filter.bit_array[j] = 1
                               /\ party2.bloom_filter.bit_array[j] = 1})

\* execute_protocol returned for two filters that share some set bits but
\* not all of them.
C4_Witness ==
    /\ ret.call = "execute_protocol"
    /\ ret.res.ok
    /\ ret.res.val.overlap_statistics.overlap_bits >= 1
    /\ ret.res.val.overlap_statistics.overlap_bits
           < ret.res.val.party1_info.bloom_set_bits
    /\ ret.res.val.overlap_statistics.overlap_bits
           < ret.res.val.party2_info.bloom_set_bits

\* C5: in every result of a protocol run overlap_bits is a non-negative
\* integer at most the smaller of the two bloom_set_bits of the same result.
C5_OverlapBitsBounded ==
    ResultReturned =>
        LET r == ret.res.val
        IN  /\ r.overlap_statistics.overlap_bits \in Nat
            /\ r.overlap_statistics.overlap_bits
                   <= Min(r.party1_info.bloom_set_bits,
                          r.party2_info.bloom_set_bits)

\* A result whose two set-bit counts differ and whose overlap_bits is
\* positive.
C5_Witness ==
    /\ ResultReturned
    /\ ret.res.val.party1_info.bloom_set_bits
           # ret.res.val.party2_info.bloom_set_bits
    /\ ret.res.val.overlap_statistics.overlap_bits > 0

\* The two parties hold the same non-empty set of indicators.
SameIndicators ==
    /\ party1 # None
    /\ party2 # None
    /\ Range(party1.ioc_list) = Range(party2.ioc_list)
    /\ Range(party1.ioc_list) # {}

\* C6: when the two parties hold the same non-empty set of indicators, in any
\* order, their filters are bit for bit identical, overlap_bits equals each
\* party's set-bit count and jaccard_similarity is 1.
C6_CompleteOverlap ==
    /\ SameIndicators =>
           party1.bloom_filter.bit_array = party2.bloom_filter.bit_array
    /\ (SameIndicators /\ ret.call = "execute_protocol" /\ ret.res.ok) =>
        LET r == ret.res.val
        IN  /\ r.overlap_statistics.overlap_bits = r.party1_info.bloom_set_bits
            /\ r.overlap_statistics.overlap_bits = r.party2_info.bloom_set_bits
            /\ r.overlap_statistics.overlap_bits > 0
            /\ r.overlap_statistics.jaccard_similarity = Frac(1, 1)

\* execute_protocol returned for two lists that hold the same two indicators
\* in different orders.
C6_Witness ==
    /\ SameIndicators
    /\ ret.call = "execute_protocol"
    /\ ret.res.ok
    /\ Cardinality(Range(party1.ioc_list)) = 2
    /\ party1.ioc_list # party2.ioc_list

\* C7: execute_protocol on an instance on which setup_parties was never
\* called raises ValueError, returns no result and leaves the instance (its
\* parties, engine and keys) unchanged.
C7_ExecuteWithoutSetupRaises ==
    [][(ret'.call = "execute_protocol" /\ NotSetUp(party1, party2)) =>
          /\ ret'.res = Raise(ValueError)
          /\ UNCHANGED <<party1, party2, he_engine, keygens, computed,
                         bloom_size, hash_count>>]_vars

\* execute_protocol raised on an instance without parties.
C7_Witness ==
    /\ ret.call = "execute_protocol"
    /\ ~ret.res.ok
    /\ party1 = None
    /\ party2 = None
    /\ he_engine = NewHEEngine

\* The filter create_bloom_filter builds from a list: of the protocol's size
\* and hash count, holding every item of the list, counting every insertion.
BuiltFrom(f, iocs, size, hashes) ==
    /\ f # None
    /\ f.size = size
    /\ f.hash_count = hashes
    /\ f.item_count = Len(iocs)
    /\ \A x \in Range(iocs) : BloomContains(f, x)
    /\ iocs = <<>> => CountSetBits(f) = 0

\* C8 as stated: when setup_parties returns the protocol is in state
\* FiltersEncrypted, each party holding a built filter and an encrypted one.
C8_SetupEncryptsFilters ==
    ret.call = "setup_parties" =>
        /\ he_engine.context = [key |-> keygens, secret |-> TRUE]
        /\ party1.bloom_filter # None
        /\ party2.bloom_filter # None
        /\ party1.encrypted_bloom # None
        /\ party2.encrypted_bloom # None
        /\ ProtocolState = "FiltersEncrypted"

\* C8 amended: when setup_parties returns, one fresh key pair has been
\* generated on the one engine both parties refer to, each party holds its
\* item list and the Bloom filter built from it, and neither holds an
\* encrypted filter yet: the protocol is in state PartiesConfigured.
C8_SetupBuildsFilters ==
    [][ret'.call = "setup_parties" =>
          /\ keygens' = keygens + 1
          /\ he_engine'.context = [key |-> keygens', secret |-> TRUE]
          /\ he_engine'.public_key = [key |-> keygens', secret |-> FALSE]
          /\ he_engine'.private_key = [key |-> keygens', secret |-> TRUE]
          /\ he_engine.context # None =>
                 he_engine'.context.key # he_engine.context.key
          /\ party1'.he_engine = EngineRef
          /\ party2'.he_engine = EngineRef
          /\ party1'.ioc_list = data1
          /\ party2'.ioc_list = data2
          /\ BuiltFrom(party1'.bloom_filter, data1, bloom_size, hash_count)
          /\ BuiltFrom(party2'.bloom_filter, data2, bloom_size, hash_count)
          /\ party1'.encrypted_bloom = None
          /\ party2'.encrypted_bloom = None
          /\ computed' = FALSE]_vars

\* A second setup_parties returned on an instance whose parties had
\* encrypted their filters.
C8_Witness ==
    /\ ret.call = "setup_parties"
    /\ keygens = 2
    /\ he_engine.context.key = 2
    /\ party1.ioc_list # <<>>
    /\ party1.encrypted_bloom = None
    /\ ProtocolState = "PartiesConfigured"

\* p and q are the same party but for its encrypted filter.
SameButEncrypted(p, q) == [p EXCEPT !.encrypted_bloom = q.encrypted_bloom] = q

\* C9 as stated: an execute_protocol in which a library call fails returns no
\* result and leaves the protocol in the state it had before the call.
C9_FailedExecuteChangesNothing ==
    [][(/\ ret'.call = "execute_protocol"
        /\ ret'.fault # "none"
        /\ ~NotSetUp(party1, party2)) =>
          /\ ~ret'.res.ok
          /\ UNCHANGED <<party1, party2, he_engine>>]_vars

\* C9 amended: an execute_protocol in which a library call fails raises that
\* error and returns no result; the engine's key pair and each party's name,
\* item list and Bloom filter are as before the call, and only the encrypted
\* filter of a party that encrypted before the failure is replaced (by the
\* new encryption of its filter, with no rollback); an execute_protocol
\* called next on the instance, with no failure, returns a result.
C9_FailedExecuteKeepsFilters ==
    [][(/\ ret'.call = "execute_protocol"
        /\ ret'.fault # "none"
        /\ ~NotSetUp(party1, party2)) =>
          /\ ret'.res = Raise(LibraryError)
          /\ he_engine' = he_engine
          /\ keygens' = keygens
          /\ computed' = computed
          /\ SameButEncrypted(party1, party1')
          /\ SameButEncrypted(party2, party2')
          /\ party1'.encrypted_bloom # party1.encrypted_bloom =>
                 /\ ret'.fault # "encrypt1"
                 /\ party1'.encrypted_bloom.data = party1.bloom_filter.bit_array
          /\ party2'.encrypted_bloom # party2.encrypted_bloom =>
                 /\ ret'.fault \in {"multiply", "decrypt"}
                 /\ party2'.encrypted_bloom.data = party2.bloom_filter.bit_array
          /\ LET retry == ExecuteProtocol(he_engine', party1', party2',
                                          bloom_size', hash_count', "none")
             IN  /\ retry.res.ok
                 /\ DOMAIN retry.res.val = ResultKeys]_vars

\* execute_protocol failed after the first party had encrypted its filter
\* and before the second had.
C9_Witness ==
    /\ ret.call = "execute_protocol"
    /\ ret.fault = "encrypt2"
    /\ ~ret.res.ok
    /\ party1 # None
    /\ party1.encrypted_bloom # None
    /\ party2.encrypted_bloom = None

\* C10 as stated: verify_correctness called in a state other than Computed is
\* refused with an error.
C10_VerifyNeedsComputed ==
    (ret.call = "verify_correctness" /\ ProtocolState # "Computed") =>
        ~ret.res.ok

\* C10 amended: verify_correctness is accepted in every state of the
\* protocol: it never raises, it returns the verification statistics of its
\* two arguments, and it leaves the protocol as it was.
C10_VerifyAcceptedInEveryState ==
    [][ret'.call = "verify_correctness" =>
          /\ ret'.res.ok
          /\ IsVerification(ret'.res.val)
          /\ ret'.res.val.set1_size = Cardinality(Range(ret'.args[1]))
          /\ ret'.res.val.set2_size = Cardinality(Range(ret'.args[2]))
          /\ UNCHANGED <<party1, party2, he_engine, keygens, computed,
                         bloom_size, hash_count>>]_vars

\* verify_correctness returned statistics on an instance that was never set
\* up.
C10_Witness ==
    /\ ret.call = "verify_correctness"
    /\ ret.res.ok
    /\ ProtocolState = "Created"
    /\ ret.res.val.union_size > 0

----------------------------------------------------------------------------
(* HEEngine and OverlapCalculator called directly. *)

\* The engine's context holds the secret key of the ciphertext's key pair.
HoldsMatchingKey(engine, ciphertext) ==
    /\ engine.context # None
    /\ engine.context.secret
    /\ engine.context.key = ciphertext.ctx

\* C11: after any sequence of generate_keys, load_public_key and
\* load_private_key calls, a decrypt of a ciphertext whose key pair's secret
\* key the engine's context does not hold raises an error and returns no
\* plaintext.
C11_DecryptNeedsMatchingKey ==
    (ret.call = "decrypt" /\ ~HoldsMatchingKey(he_engine, ret.args[1]))
        => ~ret.res.ok

\* The two parties' encrypted filters were produced under incompatible
\* parameters: filters of different size or hash count, or ciphertexts of
\* different key pairs.
Incompatible(p1, p2) ==
    \/ p1.bloom_filter.size # p2.bloom_filter.size
    \/ p1.bloom_filter.hash_count # p2.bloom_filter.hash_count
    \/ p1.encrypted_bloom.ctx # p2.encrypted_bloom.ctx

\* C12: compute_overlap_statistics on two encrypted filters produced under
\* incompatible parameters raises an error and returns no statistics.
C12_IncompatibleOverlapRaises ==
    (ret.call = "compute_overlap_statistics" /\ Incompatible(party1, party2))
        => ~ret.res.ok

----------------------------------------------------------------------------
(* BloomFilter. *)

\* The indices to which the given items hash in the rounds of filter f.
Hashes(items, f) ==
    {Hash(x, round, f.size) : x \in items, round \in 0 .. f.hash_count - 1}

\* Bit i of f is 1 if and only if one of the items hashes to i in some round.
BitsAreHashesOf(f, items) ==
    \A i \in 0 .. f.size - 1 : (f.bit_array[i] = 1) <=> (i \in Hashes(items, f))

\* The items inserted into bf since its bit array was last given.
AddedSinceBase ==
    {bf_added[n] : n \in bf_base.at + 1 .. Len(bf_added)}

\* C13 as stated: in every state of a filter reachable through its public
\* operations, the filters returned by from_bit_array, intersect and union
\* included, bit i is 1 if and only if some item inserted into that filter
\* hashes to i in some round.
C13_BitsAreInsertions ==
    /\ BitsAreHashesOf(bf, Range(bf_added))
    /\ (bf_ret.call \in {"from_bit_array", "intersect", "union"} /\ bf_ret.res.ok)
           => BitsAreHashesOf(bf_ret.res.val, {})

\* C13 amended: bit i of a filter is 1 if an item inserted since the bit
\* array was last given (at construction, all zero, or by set_bit_array)
\* hashes to i, and is otherwise the entry i of that array; so for a filter
\* built by construction, add and add_multiple alone bit i is 1 if and only
\* if some inserted item hashes to i in some round.  from_bit_array returns a
\* filter holding the given list, and intersect and union return a filter
\* holding the AND and the OR of the two filters' bits, each with item_count 0.
C13_BitsAreBaseOrInsertions ==
    /\ \A i \in 0 .. bf.size - 1 :
           bf.bit_array[i] = IF i \in Hashes(AddedSinceBase, bf) THEN 1
                             ELSE bf_base.bit_array[i]
    /\ (bf_base.at = 0 /\ \A i \in 0 .. bf.size - 1 : bf_base.bit_array[i] = 0)
           => BitsAreHashesOf(bf, Range(bf_added))
    /\ bf_ret.call = "from_bit_array" =>
           /\ bf_ret.res.val.bit_array = bf_ret.args[1]
           /\ bf_ret.res.val.item_count = 0
    /\ (bf_ret.call = "intersect" /\ bf_ret.res.ok) =>
           /\ \A i \in 0 .. bf.size - 1 :
                  (bf_ret.res.val.bit_array[i] = 1) <=>
                      (bf.bit_array[i] # 0 /\ bf_ret.args[1].bit_array[i] # 0)
           /\ bf_ret.res.val.item_count = 0
    /\ (bf_ret.call = "union" /\ bf_ret.res.ok) =>
           /\ \A i \in 0 .. bf.size - 1 :
                  (bf_ret.res.val.bit_array[i] = 1) <=>
                      (bf.bit_array[i] # 0 \/ bf_ret.args[1].bit_array[i] # 0)
           /\ bf_ret.res.val.item_count = 0

\* An item was inserted after set_bit_array gave the filter a bit that no
\* inserted item hashes to.
C13_Witness ==
    /\ bf_base.at > 0
    /\ bf_base.at < Len(bf_added)
    /\ ~BitsAreHashesOf(bf, Range(bf_added))
    /\ bf_ret.call = "add"

\* No bit of bf goes from 1 to 0 in the step.
NoBitCleared ==
    \A i \in 0 .. bf.size - 1 : bf.bit_array[i] = 1 => bf'.bit_array[i] = 1

\* C14 as stated: no operation turns a bit of the filter from 1 back to 0,
\* and no operation other than add / add_multiple changes its bit vector.
C14_BitsMonotone ==
    [][/\ NoBitCleared
       /\ bf'.bit_array # bf.bit_array =>
              bf_ret'.call \in {"add", "add_multiple"}]_vars

\* C14 amended: no operation other than set_bit_array turns a bit of the
\* filter from 1 back to 0, and of those only add / add_multiple change its
\* bit vector (contains, count_set_bits, get_bit_array, from_bit_array,
\* intersect and union leave it as it is); set_bit_array replaces the bit
\* vector by the list it is given when the list has size entries, bits that
\* were 1 included, and raises and changes nothing otherwise; it never
\* changes item_count.
C14_BitsMonotoneButSetBitArray ==
    [][/\ bf_ret'.call # "set_bit_array" =>
              /\ NoBitCleared
              /\ bf'.bit_array # bf.bit_array =>
                     bf_ret'.call \in {"add", "add_multiple"}
       /\ bf_ret'.call = "set_bit_array" =>
              /\ bf'.item_count = bf.item_count
              /\ bf_ret'.res.ok <=>
                     Cardinality(DOMAIN bf_ret'.args[1]) = bf.size
              /\ bf'.bit_array = IF bf_ret'.res.ok THEN bf_ret'.args[1]
                                 ELSE bf.bit_array]_vars

\* set_bit_array has just cleared every bit of a filter into which items had
\* been inserted.
C14_Witness ==
    /\ bf_ret.call = "set_bit_array"
    /\ bf_ret.res.ok
    /\ bf_base.at > 0
    /\ \A i \in 0 .. bf.size - 1 : bf.bit_array[i] = 0

\* C15: an add of an item that is already in the filter leaves the bit vector
\* as it is and adds one to item_count; item_count is the number of
\* insertions performed, duplicates counted, and the bit vector is a function
\* of the set of distinct inserted items alone.
C15_DuplicatesCountedBitsBySet ==
    /\ [](/\ bf.item_count = Len(bf_added)
          /\ bf.bit_array =
                 [i \in 0 .. bf.size - 1 |->
                     IF i \in Hashes(Range(bf_added), bf) THEN 1 ELSE 0])
    /\ [][(bf_ret'.call = "add" /\ bf_ret'.args[1] \in Range(bf_added)) =>
              /\ bf'.bit_array = bf.bit_array
              /\ bf'.item_count = bf.item_count + 1]_vars

\* An item has just been added for the second time, after another item.
C15_Witness ==
    /\ bf_ret.call = "add"
    /\ Len(bf_added) = 3
    /\ bf_added[3] = bf_added[1]
    /\ bf_added[2] # bf_added[1]
    /\ bf.item_count = 3

\* C16: for a filter built by insertions alone, count_set_bits() is 0 when
\* nothing has been inserted, greater than 0 once an item has been inserted,
\* and never more than hash_count * item_count.
C16_SetBitsBounded ==
    /\ bf_added = <<>> => CountSetBits(bf) = 0
    /\ bf_added # <<>> => CountSetBits(bf) > 0
    /\ CountSetBits(bf) <= bf.hash_count * bf.item_count
    /\ bf_ret.call = "count_set_bits" => bf_ret.res.val = CountSetBits(bf)

\* count_set_bits returned fewer than hash_count * item_count, two items
\* having set a common bit.
C16_Witness ==
    /\ bf_ret.call = "count_set_bits"
    /\ bf.item_count >= 2
    /\ bf_ret.res.val > 0
    /\ bf_ret.res.val < bf.hash_count * bf.item_count

\* C17: a BloomFilter constructed with size <= 0 or hash_count <= 0 is
\* rejected with an error, and no filter with a non-positive size or
\* hash_count is ever produced.
C17_NonPositiveRejected ==
    /\ (/\ bf_ret.call = "BloomFilter"
        /\ (bf_ret.args[1] <= 0 \/ bf_ret.args[2] <= 0)) => ~bf_ret.res.ok
    /\ bf # None => (bf.size > 0 /\ bf.hash_count > 0)

----------------------------------------------------------------------------
(* OverlapCalculator's arithmetic. *)

\* The fraction x lies in [0, 1].
InUnitInterval(x) == 0 <= x.num /\ x.num <= x.den

\* C18 as stated: for all non-negative bit counts calculate_jaccard_similarity
\* returns overlap_bits / union_bits when union_bits > 0 and 0.0 otherwise,
\* and the value lies in [0, 1].
C18_JaccardOrZero ==
    ret.call = "calculate_jaccard_similarity" =>
        LET union_bits == ret.args[2] + ret.args[3] - ret.args[1]
        IN  /\ union_bits > 0 => ret.res.val = Frac(ret.args[1], union_bits)
            /\ union_bits <= 0 => ret.res.val = Zero
            /\ InUnitInterval(ret.res.val)

\* n1 + n2 - n_union in units of 1 / (hash_count * LnScale), for the
\* arguments of an estimate_set_overlap call: the three estimates are
\* (size / hash_count) * -ln(1 - ratio).
ScaledEstimate(args) ==
    args[4] * (NegLn1m(args[2], args[4]) + NegLn1m(args[3], args[4])
               - NegLn1m(args[2] + args[3] - args[1], args[4]))

\* C19 as stated: estimate_set_overlap returns max(0, round(n1 + n2 -
\* n_union)): the estimate rounded to the nearest integer.
C19_EstimateRounded ==
    ret.call = "estimate_set_overlap" =>
        LET unit == ret.args[5] * LnScale
            x == ScaledEstimate(ret.args)
        IN  IF x <= 0 THEN ret.res.val = 0
            ELSE /\ 2 * x >= (2 * ret.res.val - 1) * unit
                 /\ 2 * x < (2 * ret.res.val + 1) * unit

\* C19 amended: estimate_set_overlap returns int(max(0, n1 + n2 - n_union)):
\* 0 for an estimate that is not positive, and otherwise the estimate
\* truncated to the integer below it, not rounded to the nearest.
C19_EstimateTruncated ==
    ret.call = "estimate_set_overlap" =>
        LET unit == ret.args[5] * LnScale
            x == ScaledEstimate(ret.args)
        IN  IF x <= 0 THEN ret.res.val = 0
            ELSE /\ x >= ret.res.val * unit
                 /\ x < (ret.res.val + 1) * unit

\* estimate_set_overlap returned the integer below an estimate whose
\* fractional part is above one half.
C19_Witness ==
    /\ ret.call = "estimate_set_overlap"
    /\ ScaledEstimate(ret.args) > 0
    /\ 2 * ScaledEstimate(ret.args) >=
           (2 * ret.res.val + 1) * ret.args[5] * LnScale

\* C20: for 0 <= overlap_bits <= min(bloom1_bits, bloom2_bits) and bit counts
\* of at most bloom_size, estimate_set_overlap returns a non-negative integer,
\* and 0 when neither filter has a set bit.
C20_EstimateNonNegative ==
    (/\ ret.call = "estimate_set_overlap"
     /\ ret.args[1] <= Min(ret.args[2], ret.args[3])
     /\ ret.args[2] <= ret.args[4]
     /\ ret.args[3] <= ret.args[4]) =>
        /\ ret.res.val \in Nat
        /\ (ret.args[2] = 0 /\ ret.args[3] = 0) => ret.res.val = 0

\* estimate_set_overlap returned 0 for two filters with set bits whose
\* inclusion-exclusion estimate is below -1.
C20_Witness ==
    /\ ret.call = "estimate_set_overlap"
    /\ ret.args[1] <= Min(ret.args[2], ret.args[3])
    /\ ret.args[2] <= ret.args[4]
    /\ ret.args[3] <= ret.args[4]
    /\ ScaledEstimate(ret.args) < -(ret.args[5] * LnScale)
    /\ ret.res.val = 0

----------------------------------------------------------------------------
(* Party called directly. *)

\* C21 as stated: create_bloom_filter on a party whose item list has not been
\* set with set_ioc_list fails with an error and creates no filter.
C21_CreateNeedsIocList ==
    (ret.call = "create_bloom_filter" /\ data1 = <<>>) =>
        /\ ~ret.res.ok
        /\ party1.bloom_filter = None

\* C22: encrypt_bloom_filter on a party without a filter raises an error,
\* encrypts nothing and leaves encrypted_bloom unset.
C22_EncryptNeedsFilter ==
    [][(ret'.call = "encrypt_bloom_filter" /\ party1.bloom_filter = None) =>
          /\ ~ret'.res.ok
          /\ ret'.res.exc = ValueError
          /\ party1'.encrypted_bloom = None
          /\ party1' = party1
          /\ assigned' = assigned]_vars

\* encrypt_bloom_filter has raised on a party that has its list but no filter.
C22_Witness ==
    /\ ret.call = "encrypt_bloom_filter"
    /\ ~ret.res.ok
    /\ data1 # <<>>
    /\ party1.ioc_list # <<>>
    /\ party1.bloom_filter = None
    /\ party1.encrypted_bloom = None

----------------------------------------------------------------------------
(* One protocol instance over several rounds. *)

\* C23 as stated: after one setup each party's encrypted_bloom is assigned at
\* most once, repeated execute_protocol calls reusing it.
C23_EncryptedOnce == assigned[1] <= 1 /\ assigned[2] <= 1

\* The ciphertext of party p's filter under the engine's key.
FilterEncrypted(p, engine) ==
    /\ p.encrypted_bloom # None
    /\ p.encrypted_bloom.ctx = engine.context.key
    /\ p.encrypted_bloom.data = p.bloom_filter.bit_array

\* C23 amended: after one setup each party's encrypted_bloom is assigned anew
\* by every execute_protocol call whose encryption of that party's filter
\* succeeds, each time with a ciphertext of the party's unchanged filter under
\* the engine's key; a repeated call replaces the ciphertext and does not
\* reuse it.
C23_EncryptedOnEveryExecute ==
    [][(ret'.call = "execute_protocol" /\ ~NotSetUp(party1, party2)) =>
          /\ party1'.bloom_filter = party1.bloom_filter
          /\ party2'.bloom_filter = party2.bloom_filter
          /\ ret'.fault # "encrypt1" =>
                 /\ assigned'[1] = CountAssigned(assigned[1], TRUE)
                 /\ FilterEncrypted(party1', he_engine')
          /\ ret'.fault \notin {"encrypt1", "encrypt2"} =>
                 /\ assigned'[2] = CountAssigned(assigned[2], TRUE)
                 /\ FilterEncrypted(party2', he_engine')
          /\ ret'.fault = "encrypt1" => assigned' = assigned
          /\ ret'.fault = "encrypt2" => assigned'[2] = assigned[2]]_vars

\* execute_protocol has returned a second result since the last setup: both
\* parties' encrypted filters have been assigned twice.
C23_Witness ==
    /\ ret.call = "execute_protocol"
    /\ ret.res.ok
    /\ assigned = <<2, 2>>

\* The bits of party p's filter are exactly the hash positions of the items
\* of iocs, in a filter of the protocol's parameters.
FilterOf(p, iocs) ==
    /\ p.bloom_filter.size = bloom_size
    /\ p.bloom_filter.hash_count = hash_count
    /\ \A j \in 0 .. bloom_size - 1 :
           p.bloom_filter.bit_array[j] = 1 <=>
               \E x \in Range(iocs), i \in 0 .. hash_count - 1 :
                   Hash(x, i, bloom_size) = j

\* The number of positions that some item of iocs hashes to.
BitsOf(iocs) ==
    Cardinality({Hash(x, i, bloom_size) :
                     x \in Range(iocs), i \in 0 .. hash_count - 1})

\* C30: every setup_parties replaces the key pair by a new one and the parties
\* by parties of the names and lists it was given, no other call changes
\* them, and every execute_protocol result is computed from these: both
\* multiplied ciphertexts are of the engine's current key pair, and the party
\* names, item counts and set-bit counts reported are those of the latest
\* setup_parties call.
C30_ResultOfLatestSetup ==
    [][/\ ret'.call = "setup_parties" =>
              /\ he_engine'.context.key = keygens'
              /\ he_engine'.context.key # keygens
              /\ party1'.name = ret'.args[1]
              /\ party2'.name = ret'.args[2]
              /\ party1'.ioc_list = ret'.args[3] /\ data1' = ret'.args[3]
              /\ party2'.ioc_list = ret'.args[4] /\ data2' = ret'.args[4]
       /\ ret'.call # "setup_parties" =>
              /\ he_engine' = he_engine
              /\ data1' = data1 /\ data2' = data2
              /\ ~NotSetUp(party1, party2) =>
                     /\ party1'.name = party1.name
                     /\ party2'.name = party2.name
       /\ (ret'.call = "execute_protocol" /\ ret'.res.ok) =>
              /\ party1'.encrypted_bloom.ctx = he_engine'.context.key
              /\ party2'.encrypted_bloom.ctx = he_engine'.context.key
              /\ he_engine'.context.key = keygens'
              /\ FilterOf(party1', data1') /\ FilterEncrypted(party1', he_engine')
              /\ FilterOf(party2', data2') /\ FilterEncrypted(party2', he_engine')
              /\ ret'.res.val.party1_info =
                     [name |-> party1'.name, ioc_count |-> Len(data1'),
                      bloom_set_bits |-> BitsOf(data1')]
              /\ ret'.res.val.party2_info =
                     [name |-> party2'.name, ioc_count |-> Len(data2'),
                      bloom_set_bits |-> BitsOf(data2')]
              /\ ret'.res.val.overlap_statistics.overlap_bits =
                     Cardinality({j \in 0 .. bloom_size - 1 :
                                      /\ party1'.bloom_filter.bit_array[j] = 1
                                      /\ party2'.bloom_filter.bit_array[j] = 1})]_vars

\* execute_protocol has returned a result after a second setup_parties: the
\* result reports the names and the lists of two and of no items given to it.
C30_Witness ==
    /\ ret.call = "execute_protocol"
    /\ ret.res.ok
    /\ keygens = 2
    /\ ret.res.val.party1_info.name = "ISP-C"
    /\ ret.res.val.party1_info.ioc_count = 2
    /\ ret.res.val.party2_info.ioc_count = 0

----------------------------------------------------------------------------
(* Verification against the cleartext lists. *)

\* The normalized strings of the objects of a list.
NormalizedIn(iocs) == {iocs[i].normalized_value : i \in DOMAIN iocs}

\* C24: verify_correctness reports as actual_overlap the number of distinct
\* normalized strings present in both lists and as actual_jaccard_similarity
\* that number over the number of distinct normalized strings present in
\* either, 0.0 if both lists are empty; how often a string occurs in a list,
\* and from which raw value it was normalized, changes neither.
C24_VerificationExact ==
    ret.call = "verify_correctness" =>
        LET both == NormalizedIn(ret.args[1]) \cap NormalizedIn(ret.args[2])
            either == NormalizedIn(ret.args[1]) \cup NormalizedIn(ret.args[2])
            v == ret.res.val
        IN  /\ ret.res.ok
            /\ v.actual_overlap = Cardinality(both)
            /\ (ret.args[1] = <<>> /\ ret.args[2] = <<>>) =>
                   v.actual_jaccard_similarity = Zero
            /\ either # {} =>
                   /\ v.actual_jaccard_similarity.den > 0
                   /\ v.actual_jaccard_similarity.num * Cardinality(either) =
                          Cardinality(both) * v.actual_jaccard_similarity.den

\* verify_correctness was given a list that holds one indicator twice, under
\* two raw values, which the other list holds too.
C24_Witness ==
    /\ ret.call = "verify_correctness"
    /\ Len(ret.args[1]) = 2
    /\ ret.args[1][1].raw_value # ret.args[1][2].raw_value
    /\ ret.args[1][1].normalized_value = ret.args[1][2].normalized_value
    /\ Len(ret.args[2]) = 2
    /\ ret.args[1][1].normalized_value \in NormalizedIn(ret.args[2])
    /\ Cardinality(NormalizedIn(ret.args[2])) = 2
    /\ ret.res.val.actual_overlap = 1

----------------------------------------------------------------------------
(* Test data. *)

\* C25 as stated: for sizes >= 0 and a percentage in [0, 100]
\* create_test_datasets returns lists of exactly size1 and size2 items with
\* exactly floor(min(size1, size2) * percentage / 100) distinct indicators in
\* common; a percentage outside [0, 100] raises and returns no datasets.
C25_ExactOverlap ==
    ret.call = "create_test_datasets" =>
        IF 0 <= ret.args[3] /\ ret.args[3] <= 100
        THEN /\ ret.res.ok
             /\ Len(ret.res.val[1]) = ret.args[1]
             /\ Len(ret.res.val[2]) = ret.args[2]
             /\ Cardinality(Range(ret.res.val[1]) \cap Range(ret.res.val[2])) =
                    (Min(ret.args[1], ret.args[2]) * ret.args[3]) \div 100
        ELSE ~ret.res.ok

----------------------------------------------------------------------------
(* The ratio under the logarithm. *)

\* C27 as stated: for every set_bits in 1..size the ratio passed to the
\* logarithm is at most 0.999, ratios strictly between 0.999 and 1 included.
C27_RatioAtMost999 ==
    (ret.call = "estimate_items" /\ ret.args[1] <= ret.args[2]) =>
        ret.res.val.ratio.num * 1000 <= 999 * ret.res.val.ratio.den

\* C27 amended: the ratio set_bits/size is replaced by 0.999 only when it is
\* 1.0 or more, the saturated case set_bits = size; for every set_bits in
\* 1..size-1 it is passed to the logarithm unchanged, also when it lies
\* strictly between 0.999 and 1, so that the ratio passed is always below 1.
C27_RatioClampedFromOne ==
    ret.call = "estimate_items" =>
        LET set_bits == ret.args[1]
            size == ret.args[2]
            ratio == ret.res.val.ratio
        IN  /\ set_bits >= size => ratio = [num |-> 999, den |-> 1000]
            /\ set_bits < size =>
                   /\ ratio.den > 0
                   /\ ratio.num * size = set_bits * ratio.den
            /\ ratio.num < ratio.den

\* estimate_items has passed on a ratio strictly between 0.999 and 1.
C27_Witness ==
    /\ ret.call = "estimate_items"
    /\ ret.args[1] < ret.args[2]
    /\ ret.res.val.ratio.num * 1000 > 999 * ret.res.val.ratio.den
    /\ ret.res.val.ratio.num < ret.res.val.ratio.den

----------------------------------------------------------------------------
(* Concurrent simulations. *)

\* The key pairs that simulation i's thread holds or has used: the one of
\* its engine and the ones of its parties' and its own ciphertexts.
KeysOf(i) ==
    LET r == runners[i]
    IN  (IF r.protocol # None /\ r.protocol.he_engine.context # None
         THEN {r.protocol.he_engine.context.key} ELSE {})
        \cup (IF r.encrypted1 # None THEN {r.encrypted1.ctx} ELSE {})
        \cup (IF r.encrypted2 # None THEN {r.encrypted2.ctx} ELSE {})

\* C26: concurrently running simulations share no key material, filter or
\* party state: under every interleaving of their steps each works on a
\* protocol instance that no other changes, with key pairs of its own, and
\* returns what run_simulation returns for its arguments when run alone.
C26_SimulationsIndependent ==
    /\ \A i, j \in SimIds : i # j => KeysOf(i) \cap KeysOf(j) = {}
    /\ \A i \in SimIds :
           /\ Cardinality(KeysOf(i)) <= 1
           /\ runners[i].pc # "call" => runners[i].protocol # None
           /\ runners[i].pc \in {"create_parties", "encrypt1", "encrypt2", "compute"}
                  => runners[i].protocol.he_engine.context # None
           /\ runners[i].pc \in {"encrypt1", "encrypt2", "compute"} =>
                  /\ runners[i].protocol.party1 # None
                  /\ runners[i].protocol.party2 # None
                  /\ runners[i].protocol.party1.ioc_list = runners[i].iocs1
                  /\ runners[i].protocol.party2.ioc_list = runners[i].iocs2
           /\ runners[i].pc = "done" =>
                  runners[i].results =
                      RunSimulation(runners[i].iocs1, runners[i].iocs2,
                                    runners[i].bloom_size, hash_count,
                                    TRUE, "none", 0)

\* Both simulations have returned results, for different arguments, after
\* the second generated its keys between the first's key generation and the
\* first's encryption.
C26_Witness ==
    /\ runners["sim-1"].pc = "done"
    /\ runners["sim-2"].pc = "done"
    /\ runners["sim-1"].results.ok
    /\ runners["sim-2"].results.ok
    /\ runners["sim-1"].results # runners["sim-2"].results
    /\ runners["sim-1"].protocol.he_engine.context.key = 1
    /\ runners["sim-2"].protocol.he_engine.context.key = 2
    /\ runners["sim-1"].bloom_size # runners["sim-2"].bloom_size

----------------------------------------------------------------------------
(* The web front end. *)

C29_StreamsEnd ==
    \A c \in ClientIds :
        (streams[c].pc = "open") ~>
            (/\ streams[c].pc = "closed"
             /\ streams[c].got # <<>>
             /\ streams[c].got[Len(streams[c].got)].stage \in Terminal)

====
